---- MODULE Spec2Model ----
(***************************************************************************)
(* The tool-calling inference loop of the ai-inference action:             *)
(* mcpInference (src/src/inference.ts) driving the chat-completion         *)
(* endpoint and executeToolCalls / executeToolCall (src/src/mcp.ts), and   *)
(* the action around it: run (src/src/main.ts), connectToGitHubMCP and     *)
(* simpleInference.                                                        *)
(*                                                                         *)
(* Under Spec one behaviour is one invocation of mcpInference, under       *)
(* RunSpec one run of the action, under HelperSpec one call of a function  *)
(* of helpers.ts.  The endpoint, the remote tool server and the file       *)
(* system are the environment: every answer they can give is drawn from a  *)
(* small set.                                                              *)
(***************************************************************************)
EXTENDS Integers, Sequences, FiniteSets, TLC

VARIABLES
    request,        \* the InferenceRequest handed to mcpInference
    messages,       \* the loop's own message list
    iterationCount, \* let iterationCount
    finalMessage,   \* let finalMessage
    pc,             \* where the invocation stands
    calls,          \* every chatCompletionRequest given to create(), in order
    response,       \* response.choices[0].message of the latest create()
    toolCalls,      \* the toolCalls argument of the running executeToolCalls
    toolIndex,      \* the position of its for...of loop in toolCalls
    toolResults,    \* its local toolResults
    toolOutcomes,   \* what happened to each call it has finished
    callToolLog,    \* every request given to githubMcpClient.callTool, in order
    execLog,        \* the tool calls handed to executeToolCall, in order
    warnings,       \* core.warning lines, in order
    result,         \* what the invocation returned, once it has returned
    thrown,         \* the message of the error an inference call let through
    runPc,          \* where run() stands
    inputs,         \* the inputs of the action, by name (core.getInput)
    enableMcp,      \* const enableMcp
    mcpClient,      \* const mcpClient, once connectToGitHubMCP has settled
    connectLog,     \* the tokens given to connectToGitHubMCP, in order
    inferenceLog,   \* the inference functions run() has called, in order
    modelResponse,  \* let modelResponse
    outputs,        \* core.setOutput calls, in order
    responseFile,   \* the content of the file at responseFilePath
    failed,         \* the message given to core.setFailed
    errors,         \* core.error lines, in order
    raised,         \* the functions whose error reached run()'s catch, in order
    helperCall,     \* a call of a function of helpers.ts: its name and arguments
    helperOutcome   \* what the call came to: pending, a value, a raised error

\* the state of one mcpInference invocation
loopVars == <<request, messages, iterationCount, finalMessage, pc, calls,
              response, toolCalls, toolIndex, toolResults, toolOutcomes,
              callToolLog, execLog, warnings, result, thrown>>

\* the state of run() around it
runVars == <<runPc, inputs, enableMcp, mcpClient, connectLog, inferenceLog,
             modelResponse, outputs, responseFile, failed, errors, raised>>

\* the state of one call of a helper function
helperVars == <<helperCall, helperOutcome>>

vars == <<loopVars, runVars, helperVars>>

----------------------------------------------------------------------------
(* Bounds of the model *)

\* the longest tool_calls list the endpoint answers with
MaxToolCalls == 2

\* the most tool calls the endpoint asks for over one conversation
MaxToolCallsTotal == 5

\* the most tool calls that fail (bad arguments or a failing tool) over one
\* conversation
MaxToolFailures == 1

\* the cap on iterationCount that keeps the model finite whatever the loop
\* condition is
MaxIterationCount == 6

\* the longest message list of a prompt file
MaxPromptMessages == 2

----------------------------------------------------------------------------
(* JavaScript values *)

\* null / undefined content
NULL == "<null>"

\* a || b on string-or-null operands: the empty string and null are falsy
OrElse(a, b) == IF a = NULL \/ a = "" THEN b ELSE a

\* the argument texts a model writes: one that is JSON, one that is not
ARGS_JSON == "{\"q\":\"x\"}"
ARGS_BAD == "{bad"
ArgumentTexts == {ARGS_JSON, ARGS_BAD}

\* mutant: the arguments are handed on without being parsed
JsonParsesAnything(text) == TRUE

\* JSON.parse(text) succeeds
JsonParses(text) == text = ARGS_JSON

\* String(e) of the SyntaxError JSON.parse throws
PARSE_ERROR == "SyntaxError: Unexpected token"

\* String(e) of the error a failing remote tool rejects with
TOOL_ERROR == "Error: Tool failed"

\* JSON.stringify(result.content) of a remote tool that succeeded
TOOL_OUTPUT == "[]"

----------------------------------------------------------------------------
(* The data the environment supplies *)

\* a ToolCall as the endpoint returns it
ToolCall(id, name, args) ==
    [id |-> id, type |-> "function",
     function |-> [name |-> name, arguments |-> args]]

\* the id the endpoint gives the i-th tool call of a turn
CallId(i) == "call-" \o ToString(i)

\* the tool_calls lists of exactly n calls
RECURSIVE ToolCallListsOfLen(_)
ToolCallListsOfLen(n) ==
    IF n = 0 THEN {<<>>}
    ELSE {Append(l, ToolCall(CallId(n), "search", a)) :
              l \in ToolCallListsOfLen(n - 1), a \in ArgumentTexts}

\* every tool_calls list the endpoint answers with
ToolCallLists == UNION {ToolCallListsOfLen(n) : n \in 0..MaxToolCalls}

\* the content of a choice: null, empty, or a text
Contents == {NULL, "", "Hello"}

\* response.choices[0].message: content, and tool_calls when the endpoint
\* sends the field (a null or missing field reads the same in the loop).
\* An answer that asks for one tool comes with a text or with null, one that
\* asks for several with null.
Responses ==
    {[content |-> c] : c \in Contents}
    \cup {[content |-> "Hello", tool_calls |-> <<>>]}
    \cup {[content |-> c, tool_calls |-> l] :
              c \in {NULL, "Hello"}, l \in ToolCallListsOfLen(1)}
    \cup {[content |-> NULL, tool_calls |-> l] :
              l \in ToolCallLists \ ({<<>>} \cup ToolCallListsOfLen(1))}

\* githubMcpClient.tools, the catalog listed at connection time
GatewayTools ==
    <<[type |-> "function", function |-> [name |-> "search"]],
      [type |-> "function", function |-> [name |-> "get_issue"]]>>

\* the structured-output constraint built by buildResponseFormat
RESPONSE_FORMAT == [type |-> "json_schema", json_schema |-> "schema"]

SystemMessage == [role |-> "system", content |-> "You are a helpful assistant"]
UserMessage == [role |-> "user", content |-> "Hello!"]

\* the message lists a caller starts the loop with
InitialMessageLists == {<<SystemMessage, UserMessage>>, <<UserMessage>>}

\* the InferenceRequests a caller passes: either list without a
\* structured-output constraint, the two-message list with one
Requests ==
    {[messages |-> ms, modelName |-> "gpt-4o", maxTokens |-> 200] :
         ms \in InitialMessageLists}
    \cup {[messages |-> <<SystemMessage, UserMessage>>, modelName |-> "gpt-4o",
           maxTokens |-> 200, responseFormat |-> RESPONSE_FORMAT]}

\* const mcpClient while connectToGitHubMCP has not returned a handle
NullClient == [client |-> NULL]

\* no helper call is being followed
NoHelperCall == [fn |-> NULL]

\* the outcome of a call that has not ended
PENDING == [kind |-> "pending"]

\* the helper variables at rest
HelperIdle == helperCall = NoHelperCall /\ helperOutcome = PENDING

\* the credential of the run
TOKEN == "fake-token"

\* request.responseFormat is truthy
HasResponseFormat(req) == "responseFormat" \in DOMAIN req

----------------------------------------------------------------------------
(* mcp.ts: executeToolCall *)

\* mutant: the result is keyed by the tool's name instead of the call's id
OkResultKeyedByName(tc, output) ==
    [tool_call_id |-> tc.function.name, role |-> "tool",
     name |-> tc.function.name, content |-> output]

\* the result of a tool call that succeeded
OkResult(tc, output) ==
    [tool_call_id |-> tc.id, role |-> "tool", name |-> tc.function.name,
     content |-> output]

\* mutant: the error text is passed on without the "Error: " prefix
ErrorResultBare(tc, toolError) ==
    [tool_call_id |-> tc.id, role |-> "tool", name |-> tc.function.name,
     content |-> toolError]

\* the result of a tool call whose arguments did not parse or whose tool failed
ErrorResult(tc, toolError) ==
    [tool_call_id |-> tc.id, role |-> "tool", name |-> tc.function.name,
     content |-> "Error: " \o toolError]

\* mutant: the catch block rethrows, and the loop's own catch with it
ToolErrorRethrown == "threw"

\* where executeToolCall's catch block leaves the caller: with a result,
\* back in the loop of executeToolCalls
ToolErrorCaught == "tools"

\* core.warning of the catch block
ToolWarning(tc, toolError) ==
    "Failed to execute GitHub MCP tool " \o tc.function.name \o ": " \o toolError

----------------------------------------------------------------------------
(* inference.ts: mcpInference *)

maxIterations == 5

BUDGET_WARNING == "GitHub MCP inference loop exceeded maximum iterations (5)"

FORMAT_PROMPT ==
    "Please provide your response in the exact [object Object] format specified."

\* mutant: the loop condition lets one more iteration through
LoopConditionOffByOne == iterationCount <= maxIterations

\* mutant: the loop has no iteration cap
LoopConditionNoCap == TRUE

\* mutant: the reformat round is made even when the budget is spent
LoopConditionExtraRound ==
    \/ iterationCount < maxIterations
    \/ finalMessage /\ iterationCount = maxIterations

\* while (iterationCount < maxIterations)
LoopCondition == iterationCount < maxIterations

\* mutant: the final round keeps the tool declarations
ChatCompletionRequestWithBoth ==
    IF finalMessage /\ HasResponseFormat(request)
    THEN [messages |-> messages, max_tokens |-> request.maxTokens,
          model |-> request.modelName, tools |-> GatewayTools,
          response_format |-> request.responseFormat]
    ELSE [messages |-> messages, max_tokens |-> request.maxTokens,
          model |-> request.modelName, tools |-> GatewayTools]

\* mutant: the last iteration carries response_format whatever the flag
ChatCompletionRequestFormatOnLast ==
    IF (finalMessage \/ iterationCount = maxIterations - 1)
          /\ HasResponseFormat(request)
    THEN [messages |-> messages, max_tokens |-> request.maxTokens,
          model |-> request.modelName,
          response_format |-> request.responseFormat]
    ELSE [messages |-> messages, max_tokens |-> request.maxTokens,
          model |-> request.modelName, tools |-> GatewayTools]

\* mutant: after the first iteration only the first tool is declared
ChatCompletionRequestShrunkCatalog ==
    IF finalMessage /\ HasResponseFormat(request)
    THEN [messages |-> messages, max_tokens |-> request.maxTokens,
          model |-> request.modelName,
          response_format |-> request.responseFormat]
    ELSE [messages |-> messages, max_tokens |-> request.maxTokens,
          model |-> request.modelName,
          tools |-> IF iterationCount = 0 THEN GatewayTools
                    ELSE SubSeq(GatewayTools, 1, 1)]

\* the request of one iteration: response_format on the final round, tools otherwise
ChatCompletionRequest ==
    IF finalMessage /\ HasResponseFormat(request)
    THEN [messages |-> messages, max_tokens |-> request.maxTokens,
          model |-> request.modelName,
          response_format |-> request.responseFormat]
    ELSE [messages |-> messages, max_tokens |-> request.maxTokens,
          model |-> request.modelName, tools |-> GatewayTools]

\* mutant: the content is pushed as it came, null included
AssistantMessageRawContent(resp) ==
    IF "tool_calls" \in DOMAIN resp
    THEN [role |-> "assistant", content |-> resp.content,
          tool_calls |-> resp.tool_calls]
    ELSE [role |-> "assistant", content |-> resp.content]

\* the message pushed for a response
AssistantMessage(resp) ==
    IF "tool_calls" \in DOMAIN resp
    THEN [role |-> "assistant", content |-> OrElse(resp.content, ""),
          tool_calls |-> resp.tool_calls]
    ELSE [role |-> "assistant", content |-> OrElse(resp.content, "")]

\* mutant: only a missing tool_calls field counts, an empty list does not
NoToolCallsField(resp) == "tool_calls" \notin DOMAIN resp

\* mutant: in the final round the tool calls of a response are ignored
NoToolCallsInFinalRound(resp) ==
    finalMessage \/ "tool_calls" \notin DOMAIN resp \/ Len(resp.tool_calls) = 0

\* !toolCalls || toolCalls.length === 0
NoToolCalls(resp) == "tool_calls" \notin DOMAIN resp \/ Len(resp.tool_calls) = 0

\* mutant: the extra round is never taken
NeedsFormatRoundNever == FALSE

\* mutant: the request's constraint is not consulted
NeedsFormatRoundUnasked == ~finalMessage

\* mutant: the flag is not consulted
NeedsFormatRoundAlways == HasResponseFormat(request)

\* request.responseFormat && !finalMessage
NeedsFormatRound == HasResponseFormat(request) /\ ~finalMessage

\* the message of the error create() rejects with
API_ERROR == "API Error"

\* the message of the error the loop throws for a body without choices
NO_CHOICES_ERROR == "Unexpected response format from API: {}"

\* the errors an inference call of the loop ends with
CreateErrors == {API_ERROR, NO_CHOICES_ERROR}

\* mutant: the catch block logs the error and the loop goes round again
CreateErrorSwallowed == "loop"

\* where the loop's catch block leaves the invocation: it rethrows
CreateErrorRethrown == "threw"

\* the invocation is over: returned in the loop, returned after it, or threw
Done == pc \in {"returned", "exhausted", "threw"}

\* mutant: find() on the list as it is, without reverse(): the first assistant
FirstAssistantContent(ms) ==
    LET idx == {i \in DOMAIN ms : ms[i].role = "assistant"}
    IN  IF idx = {} THEN NULL
        ELSE ms[CHOOSE i \in idx : \A j \in idx : i <= j].content

\* messages.slice().reverse().find(msg => msg.role === 'assistant')?.content
LastAssistantContent(ms) ==
    LET idx == {i \in DOMAIN ms : ms[i].role = "assistant"}
    IN  IF idx = {} THEN NULL
        ELSE ms[CHOOSE i \in idx : \A j \in idx : j <= i].content

\* the prompt inputs of the action, by name, as core.getInput gives them: an
\* input that is left out is the empty string
ActionInputs(promptFile, prompt, systemPromptFile, systemPrompt) ==
    ("prompt-file" :> promptFile) @@ ("prompt" :> prompt)
    @@ ("system-prompt-file" :> systemPromptFile)
    @@ ("system-prompt" :> systemPrompt)

NoInputs == ActionInputs("", "", "", "")
InlinePrompt == ActionInputs("", "Hi", "", "")

\* run() as it stands while it awaits mcpInference: tool use enabled, the
\* gateway connected and its catalog listed
RunAwaitsMcpInference ==
    /\ runPc = "mcpInference"
    /\ inputs = InlinePrompt
    /\ enableMcp = TRUE
    /\ mcpClient = [tools |-> GatewayTools]
    /\ connectLog = <<TOKEN>>
    /\ inferenceLog = <<"mcpInference">>
    /\ modelResponse = NULL
    /\ outputs = <<>>
    /\ responseFile = NULL
    /\ failed = NULL
    /\ errors = <<>>
    /\ raised = <<>>

Init ==
    /\ RunAwaitsMcpInference
    /\ HelperIdle
    /\ thrown = NULL
    /\ request \in Requests
    /\ messages = request.messages
    /\ iterationCount = 0
    /\ finalMessage = FALSE
    /\ pc = "loop"
    /\ calls = <<>>
    /\ response = [content |-> NULL]
    /\ toolCalls = <<>>
    /\ toolIndex = 1
    /\ toolResults = <<>>
    /\ toolOutcomes = <<>>
    /\ callToolLog = <<>>
    /\ execLog = <<>>
    /\ warnings = <<>>
    /\ result = NULL

\* the loop goes round: the counter is raised and create() is called
IssueCall ==
    /\ pc = "loop"
    /\ LoopCondition
    /\ iterationCount < MaxIterationCount
    /\ iterationCount' = iterationCount + 1
    /\ calls' = Append(calls, ChatCompletionRequest)
    /\ pc' = "create"
    /\ UNCHANGED <<request, messages, finalMessage, response, toolCalls, toolIndex,
                   toolResults, toolOutcomes, callToolLog, execLog, warnings,
                   result>>
    /\ UNCHANGED <<thrown, runVars>>
    /\ UNCHANGED helperVars

\* the loop ends on its condition: warning, last assistant content
Exhausted ==
    /\ pc = "loop"
    /\ ~LoopCondition
    /\ warnings' = Append(warnings, BUDGET_WARNING)
    /\ result' = OrElse(LastAssistantContent(messages), NULL)
    /\ pc' = "exhausted"
    /\ UNCHANGED <<request, messages, iterationCount, finalMessage, calls,
                   response, toolCalls, toolIndex, toolResults, toolOutcomes,
                   callToolLog, execLog>>
    /\ UNCHANGED <<thrown, runVars>>
    /\ UNCHANGED helperVars

\* the calls of l from position i on whose arguments will not parse
BadArguments(l, i) ==
    Cardinality({j \in i..Len(l) : ~JsonParses(l[j].function.arguments)})

\* the endpoint stays within the conversation's bounds on tool calls
WithinBounds(resp) ==
    "tool_calls" \in DOMAIN resp =>
        /\ Len(execLog) + Len(resp.tool_calls) <= MaxToolCallsTotal
        /\ Len(warnings) + BadArguments(resp.tool_calls, 1) <= MaxToolFailures

\* mutant: on the last iteration the calls are dropped
CallsToExecuteButLast(resp) ==
    IF iterationCount = maxIterations THEN <<>> ELSE resp.tool_calls

\* the calls handed to executeToolCalls: those of the response
CallsToExecute(resp) == resp.tool_calls

\* mutant: the flag is left as it is when the reformat request is pushed
FinalMessageLeft == finalMessage

\* finalMessage = true, after the reformat request is pushed
FinalMessageSet == TRUE

\* create() resolves with a response that has choices
CreateResolves(resp) ==
    /\ pc = "create"
    /\ WithinBounds(resp)
    /\ response' = resp
    /\ IF NoToolCalls(resp)
       THEN IF NeedsFormatRound
            THEN /\ messages' = messages \o
                        <<AssistantMessage(resp),
                          [role |-> "user", content |-> FORMAT_PROMPT]>>
                 /\ finalMessage' = FinalMessageSet
                 /\ pc' = "loop"
                 /\ UNCHANGED <<result, toolCalls, toolIndex, toolResults,
                                toolOutcomes>>
            ELSE /\ messages' = Append(messages, AssistantMessage(resp))
                 /\ result' = OrElse(resp.content, NULL)
                 /\ pc' = "returned"
                 /\ UNCHANGED <<finalMessage, toolCalls, toolIndex, toolResults,
                                toolOutcomes>>
       ELSE /\ messages' = Append(messages, AssistantMessage(resp))
            /\ toolCalls' = CallsToExecute(resp)
            /\ toolIndex' = 1
            /\ toolResults' = <<>>
            /\ toolOutcomes' = <<>>
            /\ pc' = "tools"
            /\ UNCHANGED <<finalMessage, result>>
    /\ UNCHANGED <<request, iterationCount, calls, callToolLog, execLog, warnings>>
    /\ UNCHANGED <<thrown, runVars>>
    /\ UNCHANGED helperVars

\* create() rejects, or resolves with a body that has no choices and the loop
\* throws: the catch block logs the error and rethrows it
CreateFails(err) ==
    /\ pc = "create"
    /\ errors' = Append(errors, "OpenAI API error: Error: " \o err)
    /\ thrown' = err
    /\ pc' = CreateErrorRethrown
    /\ UNCHANGED <<request, messages, iterationCount, finalMessage, calls,
                   response, toolCalls, toolIndex, toolResults, toolOutcomes,
                   callToolLog, execLog, warnings, result>>
    /\ UNCHANGED <<runPc, inputs, enableMcp, mcpClient, connectLog, inferenceLog,
                   modelResponse, outputs, responseFile, failed, raised>>
    /\ UNCHANGED helperVars

\* mutant: the calls are started without waiting for the one before
NextToolCallUnawaited == pc \in {"tools", "callTool"}

\* for (const toolCall of toolCalls) { await executeToolCall(...) }: the next
\* call is taken when the one before has returned
NextToolCall == pc = "tools"

\* executeToolCalls takes the next call; executeToolCall parses its arguments
\* and either catches the parse error or calls the remote tool
ExecuteToolCall ==
    /\ NextToolCall
    /\ toolIndex <= Len(toolCalls)
    /\ LET tc == toolCalls[toolIndex]
       IN  /\ execLog' = Append(execLog, tc)
           /\ IF JsonParses(tc.function.arguments)
              THEN /\ callToolLog' = Append(callToolLog,
                          [name |-> tc.function.name,
                           arguments |-> tc.function.arguments])
                   /\ pc' = "callTool"
                   /\ UNCHANGED <<toolResults, toolOutcomes, toolIndex, warnings>>
              ELSE /\ toolResults' = Append(toolResults, ErrorResult(tc, PARSE_ERROR))
                   /\ toolOutcomes' = Append(toolOutcomes, "parse threw")
                   /\ warnings' = Append(warnings, ToolWarning(tc, PARSE_ERROR))
                   /\ toolIndex' = toolIndex + 1
                   /\ pc' = ToolErrorCaught
                   /\ UNCHANGED callToolLog
    /\ UNCHANGED <<request, messages, iterationCount, finalMessage, calls,
                   response, toolCalls, result>>
    /\ UNCHANGED <<thrown, runVars>>
    /\ UNCHANGED helperVars

\* callTool resolves: the result carries the stringified output
CallToolResolves ==
    /\ pc = "callTool"
    /\ toolResults' = Append(toolResults, OkResult(toolCalls[toolIndex], TOOL_OUTPUT))
    /\ toolOutcomes' = Append(toolOutcomes, "resolved")
    /\ toolIndex' = toolIndex + 1
    /\ pc' = "tools"
    /\ UNCHANGED <<request, messages, iterationCount, finalMessage, calls,
                   response, toolCalls, callToolLog, execLog, warnings, result>>
    /\ UNCHANGED <<thrown, runVars>>
    /\ UNCHANGED helperVars

\* callTool rejects: the error is caught into the result
CallToolRejects ==
    /\ pc = "callTool"
    /\ Len(warnings) + BadArguments(toolCalls, toolIndex + 1) < MaxToolFailures
    /\ toolResults' = Append(toolResults, ErrorResult(toolCalls[toolIndex], TOOL_ERROR))
    /\ toolOutcomes' = Append(toolOutcomes, "callTool rejected")
    /\ warnings' = Append(warnings, ToolWarning(toolCalls[toolIndex], TOOL_ERROR))
    /\ toolIndex' = toolIndex + 1
    /\ pc' = ToolErrorCaught
    /\ UNCHANGED <<request, messages, iterationCount, finalMessage, calls,
                   response, toolCalls, callToolLog, execLog, result>>
    /\ UNCHANGED <<thrown, runVars>>
    /\ UNCHANGED helperVars

\* mutant: the results are put after the request's messages
WithToolResultsOnly == request.messages \o toolResults

\* mutant: the results are pushed last first
WithToolResultsReversed ==
    messages \o [i \in DOMAIN toolResults |->
                    toolResults[Len(toolResults) + 1 - i]]

\* messages.push(...toolResults)
WithToolResults == messages \o toolResults

\* executeToolCalls returns; the loop pushes the results and goes round
ToolsDone ==
    /\ pc = "tools"
    /\ toolIndex > Len(toolCalls)
    /\ messages' = WithToolResults
    /\ pc' = "loop"
    /\ UNCHANGED <<request, iterationCount, finalMessage, calls, response,
                   toolCalls, toolIndex, toolResults, toolOutcomes, callToolLog,
                   execLog, warnings, result>>
    /\ UNCHANGED <<thrown, runVars>>
    /\ UNCHANGED helperVars

\* the steps of mcpInference and its tool execution
Next ==
    \/ IssueCall
    \/ Exhausted
    \/ \E resp \in Responses : CreateResolves(resp)
    \/ \E err \in CreateErrors : CreateFails(err)
    \/ ExecuteToolCall
    \/ CallToolResolves
    \/ CallToolRejects
    \/ ToolsDone

Spec == Init /\ [][Next]_vars

\* every awaited call settles and the loop keeps running: no step that can be
\* taken is put off forever
FairSpec == Spec /\ WF_vars(Next)

----------------------------------------------------------------------------
(* helpers.ts: loadContentFromFileOrInput *)

\* what a call came to
ReturnedValue(v) == [kind |-> "value", value |-> v]
ReturnedUndefined == [kind |-> "undefined"]
Threw(message) == [kind |-> "threw", message |-> message]

\* the files of the workspace, by path, with their content
FILES == ("prompt.txt" :> "Hello!") @@ ("empty.txt" :> "")

\* the values of a file-path input: undefined, left out, a file, an empty
\* file, a file that does not exist
FilePathValues == {NULL, "", "prompt.txt", "empty.txt", "missing.txt"}

\* fs.existsSync(path) and fs.readFileSync(path, 'utf-8') as calls
ExistsSync(path) == [op |-> "existsSync", path |-> path]
ReadFileSync(path) == [op |-> "readFileSync", path |-> path]

\* value !== undefined && value !== ''
IsSet(value) == value # NULL /\ value # ""

\* mutant: the inline content is looked at before the file path
loadContentInlineFirst(filePathInput, contentInput, defaultValue, getInput) ==
    LET filePath == getInput[filePathInput]
        contentString == getInput[contentInput]
    IN  IF IsSet(contentString)
        THEN [outcome |-> ReturnedValue(contentString), fsCalls |-> <<>>]
        ELSE IF IsSet(filePath)
        THEN IF filePath \notin DOMAIN FILES
             THEN [outcome |-> Threw("File for " \o filePathInput
                                        \o " was not found: " \o filePath),
                   fsCalls |-> <<ExistsSync(filePath)>>]
             ELSE [outcome |-> ReturnedValue(FILES[filePath]),
                   fsCalls |-> <<ExistsSync(filePath), ReadFileSync(filePath)>>]
        ELSE IF defaultValue # NULL
        THEN [outcome |-> ReturnedValue(defaultValue), fsCalls |-> <<>>]
        ELSE [outcome |-> Threw("Neither " \o filePathInput \o " nor "
                                   \o contentInput \o " was set"),
              fsCalls |-> <<>>]

\* the content of the file named by one input, or of the other input, or the
\* default, with the calls made to the file system on the way
loadContentFromFileOrInput(filePathInput, contentInput, defaultValue, getInput) ==
    LET filePath == getInput[filePathInput]
        contentString == getInput[contentInput]
    IN  IF IsSet(filePath)
        THEN IF filePath \notin DOMAIN FILES
             THEN [outcome |-> Threw("File for " \o filePathInput
                                        \o " was not found: " \o filePath),
                   fsCalls |-> <<ExistsSync(filePath)>>]
             ELSE [outcome |-> ReturnedValue(FILES[filePath]),
                   fsCalls |-> <<ExistsSync(filePath), ReadFileSync(filePath)>>]
        ELSE IF IsSet(contentString)
        THEN [outcome |-> ReturnedValue(contentString), fsCalls |-> <<>>]
        ELSE IF defaultValue # NULL
        THEN [outcome |-> ReturnedValue(defaultValue), fsCalls |-> <<>>]
        ELSE [outcome |-> Threw("Neither " \o filePathInput \o " nor "
                                   \o contentInput \o " was set"),
              fsCalls |-> <<>>]

\* the bodies of an unexpected response: none, the empty string, a server
\* error object, a body whose error field is null, a text
NoBody == [kind |-> "undefined"]
NullError == [error |-> NULL]
ResponseBodies ==
    {NoBody,
     [kind |-> "string", text |-> ""],
     [kind |-> "string", text |-> "Bad Gateway"],
     [kind |-> "object", error |-> [code |-> "unauthorized",
                                    message |-> "Invalid token"],
      json |-> "{\"error\":{\"code\":\"unauthorized\",\"message\":\"Invalid token\"}}"],
     [kind |-> "object", error |-> NullError, json |-> "{\"error\":null}"]}

\* the unexpected responses: a status, the x-ms-error-code header or none, a body
UnexpectedResponses ==
    {[status |-> st, headers |-> [errorCode |-> h], body |-> b] :
         st \in {"401", "502"}, h \in {NULL, "RateLimited"}, b \in ResponseBodies}

\* !response.body
BodyMissing(body) ==
    body.kind = "undefined" \/ (body.kind = "string" /\ body.text = "")

\* response.body && response.body.error
HasServerError(body) == body.kind = "object" /\ body.error # NullError

\* throw of a value that is no Error: the server's error object
ThrewValue(v) == [kind |-> "threw", message |-> v.message, value |-> v]

\* the error handleUnexpectedResponse throws for a response
handleUnexpectedResponse(resp) ==
    LET errorCode == resp.headers.errorCode
        errorCodeMsg == IF errorCode # NULL /\ errorCode # ""
                        THEN " (error code: " \o errorCode \o ")" ELSE ""
    IN  IF HasServerError(resp.body) THEN ThrewValue(resp.body.error)
        ELSE IF BodyMissing(resp.body)
        THEN Threw("Failed to get response from AI service (status: "
                   \o resp.status \o ")" \o errorCodeMsg \o ". "
                   \o "Please check network connection and endpoint configuration.")
        ELSE Threw("AI service returned error response (status: "
                   \o resp.status \o ")" \o errorCodeMsg \o ": "
                   \o (IF resp.body.kind = "string" THEN resp.body.text
                       ELSE resp.body.json))

\* the calls of handleUnexpectedResponse
UnexpectedResponseCalls ==
    {[fn |-> "handleUnexpectedResponse", response |-> r] : r \in UnexpectedResponses}

\* the characters of a variable name: [\w.-]
NameChars ==
    {"a", "b", "c", "d", "e", "f", "g", "h", "i", "j", "k", "l", "m", "n",
     "o", "p", "q", "r", "s", "t", "u", "v", "w", "x", "y", "z", "A", "B",
     "C", "D", "E", "F", "G", "H", "I", "J", "K", "L", "M", "N", "O", "P",
     "Q", "R", "S", "T", "U", "V", "W", "X", "Y", "Z", "0", "1", "2", "3",
     "4", "5", "6", "7", "8", "9", "_", ".", "-"}

\* the properties every object inherits from Object.prototype, with what
\* String() makes of them (those the texts below name)
ObjectPrototype ==
    {[name |-> "toString", value |-> "function toString() { [native code] }"],
     [name |-> "constructor", value |-> "function Object() { [native code] }"]}

\* the variables of a template: name and value of each own property
TemplateVariableSets ==
    {{},
     {[name |-> "name", value |-> "John"]},
     {[name |-> "name", value |-> "John"], [name |-> "place", value |-> "GitHub"]},
     {[name |-> "a-b.c_1", value |-> "{{name}}"]}}

\* the texts of a template
TemplateTexts ==
    {"No variables here", "Hello {{name}}, welcome to {{place}}!",
     "Hello {{name}}, welcome to {{unknown}}!", "{{name}}{{name}}",
     "{{a-b.c_1}}", "{{{{name}}}}", "{{name}", "{{}}", "{{ name }}",
     "{{toString}}", "Hello {{constructor}}"}

\* variableName in variables: own properties and inherited ones
InVariables(variableName, variables) ==
    \E v \in variables \cup ObjectPrototype : v.name = variableName

\* variables[variableName], as String.prototype.replace takes it
VariableValue(variableName, variables) ==
    IF \E v \in variables : v.name = variableName
    THEN (CHOOSE v \in variables : v.name = variableName).value
    ELSE (CHOOSE v \in ObjectPrototype : v.name = variableName).value

\* the length of the longest run of name characters of text from position i
RECURSIVE NameRun(_, _)
NameRun(text, i) ==
    IF i <= Len(text) /\ SubSeq(text, i, i) \in NameChars
    THEN 1 + NameRun(text, i + 1) ELSE 0

\* /\{\{([\w.-]+)\}\}/ matches at position i of text
PlaceholderAt(text, i) ==
    /\ i + 1 <= Len(text) /\ SubSeq(text, i, i + 1) = "{{"
    /\ NameRun(text, i + 2) > 0
    /\ LET e == i + 2 + NameRun(text, i + 2)
       IN  e + 1 <= Len(text) /\ SubSeq(text, e, e + 1) = "}}"

\* text.replace(/\{\{([\w.-]+)\}\}/g, ...) from position i on: each match is
\* replaced by the variable's value when the name is in variables and kept
\* otherwise; the replacement is not scanned again
RECURSIVE replaceFrom(_, _, _)
replaceFrom(text, i, variables) ==
    IF i > Len(text) THEN ""
    ELSE IF PlaceholderAt(text, i)
    THEN LET n == NameRun(text, i + 2)
             variableName == SubSeq(text, i + 2, i + 1 + n)
         IN  (IF InVariables(variableName, variables)
              THEN VariableValue(variableName, variables)
              ELSE SubSeq(text, i, i + 3 + n))
             \o replaceFrom(text, i + 4 + n, variables)
    ELSE SubSeq(text, i, i) \o replaceFrom(text, i + 1, variables)

replaceTemplateVariables(text, variables) == replaceFrom(text, 1, variables)

\* the calls of replaceTemplateVariables
ReplaceCalls ==
    {[fn |-> "replaceTemplateVariables", text |-> t, variables |-> vs] :
         t \in TemplateTexts, vs \in TemplateVariableSets}

\* the calls of loadContentFromFileOrInput: for the prompt and for the system
\* prompt, with every value of the two inputs and of the default
LoadContentCalls ==
    {[fn |-> "loadContentFromFileOrInput", filePathInput |-> n[1],
      contentInput |-> n[2], defaultValue |-> d,
      getInput |-> (n[1] :> fp) @@ (n[2] :> c)] :
         n \in {<<"prompt-file", "prompt">>,
                <<"system-prompt-file", "system-prompt">>},
         fp \in FilePathValues, c \in {NULL, "", "Hi"},
         d \in {NULL, "", "You are a helpful assistant"}}

----------------------------------------------------------------------------
(* main.ts: run, with mcp.ts: connectToGitHubMCP and inference.ts:          *)
(* simpleInference                                                          *)

RESPONSE_FILE == "modelResponse.txt"

\* tempDir(): RUNNER_TEMP, or os.tmpdir()
TEMP_DIR == "/home/runner/work/_temp"

\* path.join(tempDir(), RESPONSE_FILE)
ResponseFilePath == TEMP_DIR \o "/" \o RESPONSE_FILE

\* the inputs of a run: the prompt inline or in a file, and the inputs that
\* are configuration errors (no prompt at all, a prompt file or a system
\* prompt file that does not exist)
RunInputs ==
    {InlinePrompt,
     ActionInputs("prompt.txt", "", "", ""),
     NoInputs,
     ActionInputs("missing.txt", "Hi", "", ""),
     ActionInputs("", "Hi", "missing.txt", "Be brief")}

\* const prompt = loadContentFromFileOrInput('prompt-file', 'prompt') and
\* const systemPrompt = loadContentFromFileOrInput('system-prompt-file',
\* 'system-prompt', 'You are a helpful assistant')
LoadedInputs ==
    <<loadContentFromFileOrInput("prompt-file", "prompt", NULL, inputs).outcome,
      loadContentFromFileOrInput("system-prompt-file", "system-prompt",
                                 "You are a helpful assistant", inputs).outcome>>

\* the error the two loads end with, the first one first; NULL when both return
ConfigError ==
    IF LoadedInputs[1].kind = "threw" THEN LoadedInputs[1].message
    ELSE IF LoadedInputs[2].kind = "threw" THEN LoadedInputs[2].message
    ELSE NULL

\* the message of the error client.connect rejects with
CONNECT_ERROR == "Connection failed"

\* the message of the error client.listTools rejects with
LIST_TOOLS_ERROR == "Request timed out"

\* the message of the error fs.writeFileSync throws
WRITE_ERROR == "ENOSPC: no space left on device, write"

FALLBACK_WARNING == "MCP connection failed, falling back to simple inference"

\* mutant: the one-shot request declares the tools as the loop's requests do
SimpleChatCompletionRequestWithTools ==
    IF HasResponseFormat(request)
    THEN [messages |-> request.messages, max_tokens |-> request.maxTokens,
          model |-> request.modelName,
          response_format |-> request.responseFormat]
    ELSE [messages |-> request.messages, max_tokens |-> request.maxTokens,
          model |-> request.modelName, tools |-> GatewayTools]

\* the request simpleInference gives to create(): never tools, response_format
\* when the request has one
SimpleChatCompletionRequest ==
    IF HasResponseFormat(request)
    THEN [messages |-> request.messages, max_tokens |-> request.maxTokens,
          model |-> request.modelName,
          response_format |-> request.responseFormat]
    ELSE [messages |-> request.messages, max_tokens |-> request.maxTokens,
          model |-> request.modelName]

\* the state of the loop while no mcpInference runs
LoopIdle ==
    /\ messages = <<>>
    /\ iterationCount = 0
    /\ finalMessage = FALSE
    /\ pc = "idle"
    /\ calls = <<>>
    /\ response = [content |-> NULL]
    /\ toolCalls = <<>>
    /\ toolIndex = 1
    /\ toolResults = <<>>
    /\ toolOutcomes = <<>>
    /\ callToolLog = <<>>
    /\ execLog = <<>>
    /\ warnings = <<>>
    /\ result = NULL
    /\ thrown = NULL

\* the action is started: the inputs are what the workflow gave
RunInit ==
    /\ LoopIdle
    /\ HelperIdle
    /\ request \in Requests
    /\ inputs \in RunInputs
    /\ enableMcp \in BOOLEAN
    /\ runPc = "start"
    /\ mcpClient = NullClient
    /\ connectLog = <<>>
    /\ inferenceLog = <<>>
    /\ modelResponse = NULL
    /\ outputs = <<>>
    /\ responseFile = NULL
    /\ failed = NULL
    /\ errors = <<>>
    /\ raised = <<>>

\* run() calls simpleInference, which runs up to its await of create()
CallSimpleInference ==
    /\ inferenceLog' = Append(inferenceLog, "simpleInference")
    /\ calls' = Append(calls, SimpleChatCompletionRequest)
    /\ runPc' = "simpleInference"

\* mutant: the catch block takes every error for something that is not an Error
RunCatchesUnexpected(fn, msg) ==
    /\ raised' = Append(raised, fn)
    /\ failed' = "An unexpected error occurred"
    /\ runPc' = "failed"

\* the catch block of run(): the error's message goes to core.setFailed
RunCatches(fn, msg) ==
    /\ raised' = Append(raised, fn)
    /\ failed' = msg
    /\ runPc' = "failed"

\* loading the prompt or the system prompt throws
LoadInputsFails ==
    /\ runPc = "start"
    /\ ConfigError # NULL
    /\ RunCatches("loadContentFromFileOrInput", ConfigError)
    /\ UNCHANGED <<loopVars, inputs, enableMcp, mcpClient, connectLog, inferenceLog,
                   modelResponse, outputs, responseFile, errors>>
    /\ UNCHANGED helperVars

\* the inputs are read; with tool use enabled run() calls connectToGitHubMCP,
\* which runs up to its await of client.connect, and simpleInference otherwise
LoadInputs ==
    /\ runPc = "start"
    /\ ConfigError = NULL
    /\ IF enableMcp
       THEN /\ connectLog' = Append(connectLog, TOKEN)
            /\ runPc' = "connect"
            /\ UNCHANGED <<inferenceLog, calls>>
       ELSE /\ CallSimpleInference
            /\ UNCHANGED connectLog
    /\ UNCHANGED <<request, messages, iterationCount, finalMessage, pc, response,
                   toolCalls, toolIndex, toolResults, toolOutcomes, callToolLog,
                   execLog, warnings, result, thrown>>
    /\ UNCHANGED <<inputs, enableMcp, mcpClient, modelResponse, outputs, responseFile,
                   failed, errors, raised>>
    /\ UNCHANGED helperVars

\* client.connect rejects: connectToGitHubMCP warns and returns null, run()
\* warns and falls back to simpleInference
ConnectRejects ==
    /\ runPc = "connect"
    /\ mcpClient' = NullClient
    /\ warnings' = warnings \o
           <<"Failed to connect to GitHub MCP server: Error: " \o CONNECT_ERROR,
             FALLBACK_WARNING>>
    /\ CallSimpleInference
    /\ UNCHANGED <<request, messages, iterationCount, finalMessage, pc, response,
                   toolCalls, toolIndex, toolResults, toolOutcomes, callToolLog,
                   execLog, result, thrown>>
    /\ UNCHANGED <<inputs, enableMcp, connectLog, modelResponse, outputs, responseFile,
                   failed, errors, raised>>
    /\ UNCHANGED helperVars

\* client.connect resolves: connectToGitHubMCP goes on to await listTools
ConnectResolves ==
    /\ runPc = "connect"
    /\ runPc' = "listTools"
    /\ UNCHANGED <<loopVars, inputs, enableMcp, mcpClient, connectLog, inferenceLog,
                   modelResponse, outputs, responseFile, failed, errors, raised>>
    /\ UNCHANGED helperVars

\* client.listTools rejects: nothing in connectToGitHubMCP catches it
ListToolsRejects ==
    /\ runPc = "listTools"
    /\ RunCatches("connectToGitHubMCP", LIST_TOOLS_ERROR)
    /\ UNCHANGED <<loopVars, inputs, enableMcp, mcpClient, connectLog, inferenceLog,
                   modelResponse, outputs, responseFile, errors>>
    /\ UNCHANGED helperVars

\* client.listTools resolves: connectToGitHubMCP returns the handle and run()
\* calls mcpInference, which starts its loop
ListToolsResolves ==
    /\ runPc = "listTools"
    /\ mcpClient' = [tools |-> GatewayTools]
    /\ inferenceLog' = Append(inferenceLog, "mcpInference")
    /\ runPc' = "mcpInference"
    /\ messages' = request.messages
    /\ iterationCount' = 0
    /\ finalMessage' = FALSE
    /\ pc' = "loop"
    /\ UNCHANGED <<request, calls, response, toolCalls, toolIndex, toolResults,
                   toolOutcomes, callToolLog, execLog, warnings, result, thrown>>
    /\ UNCHANGED <<inputs, enableMcp, connectLog, modelResponse, outputs, responseFile,
                   failed, errors, raised>>
    /\ UNCHANGED helperVars

\* simpleInference: create() resolves with choices; content || null is returned
SimpleCreateResolves(content) ==
    /\ runPc = "simpleInference"
    /\ response' = [content |-> content]
    /\ modelResponse' = OrElse(content, NULL)
    /\ runPc' = "respond"
    /\ UNCHANGED <<request, messages, iterationCount, finalMessage, pc, calls,
                   toolCalls, toolIndex, toolResults, toolOutcomes, callToolLog,
                   execLog, warnings, result, thrown>>
    /\ UNCHANGED <<inputs, enableMcp, mcpClient, connectLog, inferenceLog, outputs,
                   responseFile, failed, errors, raised>>
    /\ UNCHANGED helperVars

\* simpleInference: create() resolves with a body that has no choices: an error
\* line is logged and null is returned
SimpleNoChoices ==
    /\ runPc = "simpleInference"
    /\ errors' = Append(errors, "Unexpected response format from API: {}")
    /\ modelResponse' = NULL
    /\ runPc' = "respond"
    /\ UNCHANGED <<loopVars, inputs, enableMcp, mcpClient, connectLog, inferenceLog,
                   outputs, responseFile, failed, raised>>
    /\ UNCHANGED helperVars

\* simpleInference: create() rejects: the error is logged and rethrown
SimpleCreateRejects ==
    /\ runPc = "simpleInference"
    /\ errors' = Append(errors, "API error: Error: " \o API_ERROR)
    /\ RunCatches("simpleInference", API_ERROR)
    /\ UNCHANGED <<loopVars, inputs, enableMcp, mcpClient, connectLog, inferenceLog,
                   modelResponse, outputs, responseFile>>
    /\ UNCHANGED helperVars

\* mcpInference returns, from inside its loop or after it
McpInferenceReturns ==
    /\ runPc = "mcpInference"
    /\ pc \in {"returned", "exhausted"}
    /\ modelResponse' = result
    /\ runPc' = "respond"
    /\ UNCHANGED <<loopVars, inputs, enableMcp, mcpClient, connectLog, inferenceLog,
                   outputs, responseFile, failed, errors, raised>>
    /\ UNCHANGED helperVars

\* mutant: the response output is set, empty, before the error is reported
McpInferenceThrowsWithOutput ==
    /\ runPc = "mcpInference"
    /\ pc = "threw"
    /\ outputs' = Append(outputs, [name |-> "response", value |-> ""])
    /\ RunCatches("mcpInference", thrown)
    /\ UNCHANGED <<loopVars, inputs, enableMcp, mcpClient, connectLog, inferenceLog,
                   modelResponse, responseFile, errors>>
    /\ UNCHANGED helperVars

\* mcpInference throws
McpInferenceThrows ==
    /\ runPc = "mcpInference"
    /\ pc = "threw"
    /\ RunCatches("mcpInference", thrown)
    /\ UNCHANGED <<loopVars, inputs, enableMcp, mcpClient, connectLog, inferenceLog,
                   modelResponse, outputs, responseFile, errors>>
    /\ UNCHANGED helperVars

\* mutant: the file's path is set before the response
ResponseOutputsFileFirst ==
    <<[name |-> "response-file", value |-> ResponseFilePath],
      [name |-> "response", value |-> OrElse(modelResponse, "")]>>

\* the two outputs run() sets
ResponseOutputs ==
    <<[name |-> "response", value |-> OrElse(modelResponse, "")],
      [name |-> "response-file", value |-> ResponseFilePath]>>

\* modelResponse && modelResponse !== ''
WritesResponseFile == modelResponse # NULL /\ modelResponse # ""

\* run() sets its outputs and, for a response that is not empty, writes the file
SetOutputs ==
    /\ runPc = "respond"
    /\ outputs' = outputs \o ResponseOutputs
    /\ responseFile' = IF WritesResponseFile THEN modelResponse ELSE responseFile
    /\ runPc' = "done"
    /\ UNCHANGED <<loopVars, inputs, enableMcp, mcpClient, connectLog, inferenceLog,
                   modelResponse, failed, errors, raised>>
    /\ UNCHANGED helperVars

\* run() sets its outputs and fs.writeFileSync throws
WriteFileFails ==
    /\ runPc = "respond"
    /\ WritesResponseFile
    /\ outputs' = outputs \o ResponseOutputs
    /\ RunCatches("writeFileSync", WRITE_ERROR)
    /\ UNCHANGED <<loopVars, inputs, enableMcp, mcpClient, connectLog, inferenceLog,
                   modelResponse, responseFile, errors>>
    /\ UNCHANGED helperVars

RunNext ==
    \/ LoadInputsFails
    \/ LoadInputs
    \/ ConnectRejects
    \/ ConnectResolves
    \/ ListToolsRejects
    \/ ListToolsResolves
    \/ \E content \in Contents : SimpleCreateResolves(content)
    \/ SimpleNoChoices
    \/ SimpleCreateRejects
    \/ Next
    \/ McpInferenceReturns
    \/ McpInferenceThrows
    \/ SetOutputs
    \/ WriteFileFails

\* one run of the action
RunSpec == RunInit /\ [][RunNext]_vars

\* the run is over
RunDone == runPc \in {"done", "failed"}

----------------------------------------------------------------------------
(* helpers.ts: buildMessages, buildResponseFormat *)

\* promptConfig when no prompt file is used: undefined
NoPromptConfig == [undefined |-> TRUE]

\* the messages a prompt file can hold
PromptMessages ==
    {[role |-> "system", content |-> "S"],
     [role |-> "user", content |-> "U"],
     [role |-> "assistant", content |-> "A"]}

\* the message lists of exactly n messages
RECURSIVE PromptMessageListsOfLen(_)
PromptMessageListsOfLen(n) ==
    IF n = 0 THEN {<<>>}
    ELSE {Append(l, m) : l \in PromptMessageListsOfLen(n - 1), m \in PromptMessages}

\* the message lists of a prompt file, the empty one included
PromptMessageLists ==
    UNION {PromptMessageListsOfLen(n) : n \in 0..MaxPromptMessages}

\* a schema body that is JSON, and one that is not
SCHEMA_JSON == "{\"type\":\"object\"}"
SCHEMA_BAD == "{not json"

\* the schema bodies a prompt file gives: none or empty, JSON, not JSON
SchemaTexts == {"", SCHEMA_JSON, SCHEMA_BAD}

\* JSON.parse of a schema body: the value, or the SyntaxError's message
ParseSchema(text) ==
    IF text = SCHEMA_JSON
    THEN [ok |-> TRUE, value |-> [type |-> "object"]]
    ELSE [ok |-> FALSE, message |-> "Unexpected token n in JSON at position 1"]

\* the PromptConfigs with a given message list: with and without a response
\* format, with and without a schema body
PromptConfigsWith(ms) ==
    {[messages |-> ms]}
    \cup {[messages |-> ms, responseFormat |-> f] : f \in {"text", "json_schema"}}
    \cup {[messages |-> ms, jsonSchema |-> t] : t \in SchemaTexts}
    \cup {[messages |-> ms, responseFormat |-> f, jsonSchema |-> t] :
              f \in {"text", "json_schema"}, t \in SchemaTexts}

\* the optional string arguments: undefined, empty, a text
OptionalTexts(text) == {NULL, "", text}

\* the calls of the helper functions
HelperCalls ==
    {[fn |-> "buildMessages", promptConfig |-> c, systemPrompt |-> sp, prompt |-> p] :
         c \in {NoPromptConfig} \cup {[messages |-> ms] : ms \in PromptMessageLists},
         sp \in OptionalTexts("Be brief"), p \in OptionalTexts("Hello!")}
    \cup {[fn |-> "buildResponseFormat", promptConfig |-> c] :
             c \in {NoPromptConfig}
                   \cup PromptConfigsWith(<<[role |-> "user", content |-> "U"]>>)}
    \cup LoadContentCalls
    \cup UnexpectedResponseCalls
    \cup ReplaceCalls

\* promptConfig?.messages && promptConfig.messages.length > 0
HasMessages(promptConfig) ==
    "messages" \in DOMAIN promptConfig /\ Len(promptConfig.messages) > 0

\* the legacy format: a system and a user message
LegacyMessages(systemPrompt, prompt) ==
    <<[role |-> "system",
       content |-> OrElse(systemPrompt, "You are a helpful assistant")],
      [role |-> "user", content |-> OrElse(prompt, "")]>>

\* mutant: the length of the message list is not looked at
buildMessagesNoLengthCheck(promptConfig, systemPrompt, prompt) ==
    IF "messages" \in DOMAIN promptConfig
    THEN [i \in DOMAIN promptConfig.messages |->
             [role |-> promptConfig.messages[i].role,
              content |-> promptConfig.messages[i].content]]
    ELSE LegacyMessages(systemPrompt, prompt)

\* the prompt file's messages when it has any, the legacy format otherwise
buildMessages(promptConfig, systemPrompt, prompt) ==
    IF HasMessages(promptConfig)
    THEN [i \in DOMAIN promptConfig.messages |->
             [role |-> promptConfig.messages[i].role,
              content |-> promptConfig.messages[i].content]]
    ELSE LegacyMessages(systemPrompt, prompt)

\* promptConfig?.responseFormat === 'json_schema' && promptConfig.jsonSchema
WantsJsonSchema(promptConfig) ==
    /\ "responseFormat" \in DOMAIN promptConfig
    /\ promptConfig.responseFormat = "json_schema"
    /\ "jsonSchema" \in DOMAIN promptConfig
    /\ promptConfig.jsonSchema # ""

\* mutant: a schema body that does not parse is passed over in silence
buildResponseFormatSilent(promptConfig) ==
    IF WantsJsonSchema(promptConfig) /\ ParseSchema(promptConfig.jsonSchema).ok
    THEN ReturnedValue([type |-> "json_schema",
                        json_schema |-> ParseSchema(promptConfig.jsonSchema).value])
    ELSE ReturnedUndefined

\* the constraint for the API: the parsed schema, or an error when the schema
\* body does not parse; undefined when no json_schema format is declared
buildResponseFormat(promptConfig) ==
    IF WantsJsonSchema(promptConfig)
    THEN LET parsed == ParseSchema(promptConfig.jsonSchema)
         IN  IF parsed.ok
             THEN ReturnedValue([type |-> "json_schema", json_schema |-> parsed.value])
             ELSE Threw("Invalid JSON schema: " \o parsed.message)
    ELSE ReturnedUndefined

\* run() at rest: no run of the action is being followed
RunIdle ==
    /\ request = [messages |-> <<>>, modelName |-> "", maxTokens |-> 0]
    /\ runPc = "idle"
    /\ inputs = NoInputs
    /\ enableMcp = FALSE
    /\ mcpClient = NullClient
    /\ connectLog = <<>>
    /\ inferenceLog = <<>>
    /\ modelResponse = NULL
    /\ outputs = <<>>
    /\ responseFile = NULL
    /\ failed = NULL
    /\ errors = <<>>
    /\ raised = <<>>

\* a helper function is called with arguments of the kinds its callers pass
HelperInit ==
    /\ LoopIdle
    /\ RunIdle
    /\ helperCall \in HelperCalls
    /\ helperOutcome = PENDING

\* the call of buildMessages returns
BuildMessages ==
    /\ helperCall.fn = "buildMessages"
    /\ helperOutcome = PENDING
    /\ helperOutcome' = ReturnedValue(buildMessages(helperCall.promptConfig,
                                                   helperCall.systemPrompt,
                                                   helperCall.prompt))
    /\ UNCHANGED <<loopVars, runVars, helperCall>>

\* the call of buildResponseFormat returns or throws
BuildResponseFormat ==
    /\ helperCall.fn = "buildResponseFormat"
    /\ helperOutcome = PENDING
    /\ helperOutcome' = buildResponseFormat(helperCall.promptConfig)
    /\ UNCHANGED <<loopVars, runVars, helperCall>>

\* the call of loadContentFromFileOrInput returns or throws
LoadContentFromFileOrInput ==
    /\ helperCall.fn = "loadContentFromFileOrInput"
    /\ helperOutcome = PENDING
    /\ LET r == loadContentFromFileOrInput(helperCall.filePathInput,
                                           helperCall.contentInput,
                                           helperCall.defaultValue,
                                           helperCall.getInput)
       IN  helperOutcome' = [kind |-> r.outcome.kind, outcome |-> r.outcome,
                             fsCalls |-> r.fsCalls]
    /\ UNCHANGED <<loopVars, runVars, helperCall>>

\* the call of handleUnexpectedResponse throws
HandleUnexpectedResponse ==
    /\ helperCall.fn = "handleUnexpectedResponse"
    /\ helperOutcome = PENDING
    /\ helperOutcome' = handleUnexpectedResponse(helperCall.response)
    /\ UNCHANGED <<loopVars, runVars, helperCall>>

\* the call of replaceTemplateVariables returns the text with its
\* placeholders replaced
ReplaceTemplateVariables ==
    /\ helperCall.fn = "replaceTemplateVariables"
    /\ helperOutcome = PENDING
    /\ helperOutcome' = ReturnedValue(replaceTemplateVariables(helperCall.text,
                                                               helperCall.variables))
    /\ UNCHANGED <<loopVars, runVars, helperCall>>

HelperNext ==
    \/ BuildMessages
    \/ BuildResponseFormat
    \/ LoadContentFromFileOrInput
    \/ HandleUnexpectedResponse
    \/ ReplaceTemplateVariables

\* one call of a helper function
HelperSpec == HelperInit /\ [][HelperNext]_vars

----------------------------------------------------------------------------
(* Properties *)

Last(s) == s[Len(s)]

\* the elements of a sequence
Range(s) == {s[i] : i \in DOMAIN s}

\* the text s starts with the text p
StartsWith(s, p) == Len(s) >= Len(p) /\ SubSeq(s, 1, Len(p)) = p

\* the positions of the assistant messages of a list
AssistantIdx(ms) == {i \in DOMAIN ms : ms[i].role = "assistant"}

\* C1: whatever the endpoint and the tools answer, one invocation of
\* mcpInference issues at most five inference calls.
C1_AtMostFiveCalls == Len(calls) <= 5

C1_Witness == pc = "exhausted" /\ Len(calls) = 5 /\ Len(execLog) = 5

\* C2 as claimed: when the loop comes round after its fifth call, the
\* invocation returns (it does not throw), logs the budget warning, and what it
\* returns is the content of the most recent assistant message of the list.
C2_ReturnsLastAssistantContent ==
    [][(pc = "loop" /\ Len(calls) = 5) =>
          /\ pc' = "exhausted"
          /\ warnings' = Append(warnings, BUDGET_WARNING)
          /\ \E i \in AssistantIdx(messages') :
                /\ \A j \in AssistantIdx(messages') : j <= i
                /\ result' = messages'[i].content]_vars

\* C2 amended: as above, and the most recent assistant message is the one the
\* fifth call appended; what is returned is its content, or null when that
\* content is the empty string.
C2_ReturnsLastAssistantContentOrNull ==
    [][(pc = "loop" /\ Len(calls) = 5) =>
          /\ pc' = "exhausted"
          /\ warnings' = Append(warnings, BUDGET_WARNING)
          /\ \E i \in AssistantIdx(messages') :
                /\ \A j \in AssistantIdx(messages') : j <= i
                /\ i = Len(calls[5].messages) + 1
                /\ result' = IF messages'[i].content = "" THEN NULL
                             ELSE messages'[i].content]_vars

C2_Witness ==
    /\ pc = "exhausted"
    /\ result = "Hello"
    /\ \E i \in AssistantIdx(messages) : messages[i].content = ""

\* C3: provided every inference call and every tool execution settles, every
\* invocation ends: it returns a result or throws, whatever the endpoint
\* answers.
C3_Terminates == <>Done

C3_Witness ==
    /\ pc = "exhausted"
    /\ \A i \in AssistantIdx(messages) :
          "tool_calls" \in DOMAIN messages[i] /\ Len(messages[i].tool_calls) > 0

\* C4: every inference call carries either the tool catalog or response_format,
\* never both: response_format without tools when issued with finalMessage set,
\* the catalog without response_format otherwise.
C4_ToolsXorResponseFormat ==
    [][Len(calls') = Len(calls) + 1 =>
          LET c == Last(calls')
          IN  IF finalMessage
              THEN /\ "response_format" \in DOMAIN c
                   /\ c.response_format = request.responseFormat
                   /\ "tools" \notin DOMAIN c
              ELSE /\ "tools" \in DOMAIN c
                   /\ c.tools = GatewayTools
                   /\ "response_format" \notin DOMAIN c]_vars

C4_Witness ==
    /\ \E i \in DOMAIN calls : "response_format" \in DOMAIN calls[i]
    /\ \E i \in DOMAIN calls : "tools" \in DOMAIN calls[i]

\* the caller asked for structured output
FormatRequested == "responseFormat" \in DOMAIN request

\* a response without tool calls: no field, or an empty list
ToolFree(r) == "tool_calls" \notin DOMAIN r \/ r.tool_calls = <<>>

\* a content as mcpInference returns it: the empty string comes back as null
Returned(content) == IF content = "" THEN NULL ELSE content

\* the inference calls issued with response_format
FormatCalls == {i \in DOMAIN calls : "response_format" \in DOMAIN calls[i]}

\* C5 as claimed: without a structured-output constraint, a first response
\* without tool calls ends the loop after that one inference call, no tool
\* having been executed, and the call's content is returned unchanged.
C5_OneCallContentUnchanged ==
    (~FormatRequested /\ Len(calls) = 1 /\ pc \notin {"create", "threw"}
        /\ ToolFree(response)) =>
            /\ pc = "returned"
            /\ execLog = <<>> /\ callToolLog = <<>>
            /\ result = response.content

\* C5 amended: as above, but an empty content is returned as null.
C5_OneCallContentOrNull ==
    (~FormatRequested /\ Len(calls) = 1 /\ pc \notin {"create", "threw"}
        /\ ToolFree(response)) =>
            /\ pc = "returned"
            /\ execLog = <<>> /\ callToolLog = <<>>
            /\ result = Returned(response.content)

C5_Witness ==
    /\ ~FormatRequested /\ Len(calls) = 1 /\ pc = "returned"
    /\ response = [content |-> "Hello", tool_calls |-> <<>>]
    /\ result = "Hello"

\* the reformat request the loop pushes when it sets finalMessage
FormatPromptMessage == [role |-> "user", content |-> FORMAT_PROMPT]

\* no assistant message after the reformat request carries tool calls
NoToolsAfterFormatPrompt ==
    \A i, j \in DOMAIN messages :
        (messages[i] = FormatPromptMessage /\ i < j) =>
            messages[j].role = "assistant" /\ ToolFree(messages[j])

\* C6 as claimed, read in its favour (no endpoint failure, no tool calls in
\* the answers to the final round, an empty content counted as returned
\* when null comes back): with a structured-output constraint, once the first
\* tool-free response has arrived (finalMessage is set), whatever the
\* iteration, an invocation that ends has made exactly one call with
\* response_format and no tools, its last, and returns that call's content.
C6_OneFormatCallThenReturns ==
    (FormatRequested /\ finalMessage /\ pc \in {"returned", "exhausted"}
        /\ NoToolsAfterFormatPrompt) =>
            /\ pc = "returned"
            /\ FormatCalls = {Len(calls)}
            /\ "tools" \notin DOMAIN Last(calls)
            /\ result = Returned(response.content)

\* C6 amended: the call after the first tool-free response, if the response
\* came before the fifth iteration, carries response_format and no tools; a
\* tool-free answer to a call of the final round ends the loop with that
\* answer's content (null when empty), and when it answers the first such
\* call that call was the only additional one.  After a first tool-free
\* response on the fifth iteration there is no further call.
C6_FormatRound ==
    [][/\ (~finalMessage /\ finalMessage') =>
              /\ FormatRequested /\ ToolFree(response')
              /\ pc' = "loop" /\ calls' = calls
       /\ (pc = "loop" /\ finalMessage /\ Len(calls) < 5) =>
              /\ Len(calls') = Len(calls) + 1
              /\ "response_format" \in DOMAIN Last(calls')
              /\ "tools" \notin DOMAIN Last(calls')
       /\ (pc = "loop" /\ finalMessage /\ Len(calls) = 5) =>
              /\ pc' = "exhausted" /\ calls' = calls
       /\ (pc = "create" /\ finalMessage /\ pc' # "threw" /\ ToolFree(response')) =>
              /\ pc' = "returned" /\ calls' = calls
              /\ result' = Returned(response'.content)
       /\ (pc = "create" /\ finalMessage /\ pc' = "returned"
              /\ Last(messages) = FormatPromptMessage) =>
              FormatCalls = {Len(calls)}]_vars

C6_Witness ==
    /\ FormatRequested /\ pc = "returned" /\ Len(calls) = 3
    /\ FormatCalls = {3}
    /\ result = "Hello"

\* the tool messages of a list answer, one for one and in order, the
\* tool_calls of the nearest assistant message before them
ToolMessagesAnswerCalls(ms) ==
    \A i \in DOMAIN ms :
        ms[i].role = "tool" =>
            \E a \in 1..(i - 1) :
                /\ ms[a].role = "assistant"
                /\ \A j \in (a + 1)..i : ms[j].role = "tool"
                /\ "tool_calls" \in DOMAIN ms[a]
                /\ i - a <= Len(ms[a].tool_calls)
                /\ ms[i].tool_call_id = ms[a].tool_calls[i - a].id

\* C7: in every state of the message list, each tool message's tool_call_id
\* is the id of a tool_calls entry of the nearest preceding assistant message,
\* the tool messages after an assistant message are in the order of its
\* tool_calls, and no tool message comes without such an assistant message.
C7_ToolMessagesFollowTheirCalls == ToolMessagesAnswerCalls(messages)

C7_Witness ==
    \E i \in DOMAIN messages :
        /\ i + 2 <= Len(messages)
        /\ messages[i].role = "assistant"
        /\ messages[i + 1].role = "tool" /\ messages[i + 2].role = "tool"
        /\ messages[i + 1].tool_call_id # messages[i + 2].tool_call_id

\* executeToolCalls is about to return
ToolCallsReturn == pc = "tools" /\ toolIndex > Len(toolCalls)

\* C8: executeToolCalls returns one result per call, the i-th with the
\* tool_call_id of the i-th call; a failing call's content starts with
\* "Error:", and the other calls keep their results: a call that succeeded
\* has its tool's output whatever became of its siblings.
C8_OneResultPerCallInOrder ==
    /\ pc \in {"tools", "callTool"} =>
          /\ Len(toolResults) = Len(toolOutcomes)
          /\ Len(toolResults) <= Len(toolCalls)
          /\ \A i \in DOMAIN toolResults :
                /\ toolResults[i].tool_call_id = toolCalls[i].id
                /\ toolOutcomes[i] # "resolved" =>
                       StartsWith(toolResults[i].content, "Error:")
                /\ toolOutcomes[i] = "resolved" =>
                       toolResults[i].content = TOOL_OUTPUT
    /\ ToolCallsReturn => Len(toolResults) = Len(toolCalls)

C8_Witness ==
    /\ ToolCallsReturn
    /\ Len(toolCalls) = 2
    /\ toolOutcomes = <<"callTool rejected", "resolved">>

\* the tool messages the loop has pushed
ToolMessages == {i \in DOMAIN messages : messages[i].role = "tool"}

\* the results executeToolCall has returned so far: those pushed, and those
\* the running executeToolCalls holds
ResultsReturned ==
    Cardinality(ToolMessages)
        + (IF pc \in {"tools", "callTool"} THEN Len(toolResults) ELSE 0)

\* C9: executeToolCall never throws: every call handed to it comes back as a
\* ToolResult with role 'tool', the call's id and the function's name; its
\* content is "Error: <details>" when the arguments do not parse or the remote
\* tool fails, and the remote tool is called only for arguments that parse.
C9_AlwaysAToolResult ==
    /\ Len(execLog) = ResultsReturned + (IF pc = "callTool" THEN 1 ELSE 0)
    /\ pc \in {"tools", "callTool"} =>
          \A i \in DOMAIN toolResults :
              /\ toolResults[i].role = "tool"
              /\ toolResults[i].tool_call_id = toolCalls[i].id
              /\ toolResults[i].name = toolCalls[i].function.name
              /\ toolOutcomes[i] = "parse threw" =>
                     toolResults[i].content = "Error: " \o PARSE_ERROR
              /\ toolOutcomes[i] = "callTool rejected" =>
                     toolResults[i].content = "Error: " \o TOOL_ERROR
    /\ Len(callToolLog) =
          Cardinality({i \in DOMAIN execLog :
                          execLog[i].function.arguments # ARGS_BAD})

C9_Witness ==
    /\ pc = "tools"
    /\ toolOutcomes = <<"parse threw", "resolved">>
    /\ Len(callToolLog) = 1

\* the running executeToolCalls has seen a call fail
SomeCallFailed == \E i \in DOMAIN toolOutcomes : toolOutcomes[i] # "resolved"

\* C10: a failing tool call never aborts the loop: no step of the tool
\* execution ends the invocation, the error result is pushed as a tool message
\* with the others, and the loop then goes on to its next iteration, or to
\* budget exhaustion after the fifth.
C10_ToolFailureDoesNotAbort ==
    [][/\ pc \in {"tools", "callTool"} => pc' \in {"tools", "callTool", "loop"}
       /\ (pc = "tools" /\ pc' = "loop" /\ SomeCallFailed) =>
              /\ Len(toolResults) = Len(toolCalls)
              /\ messages' = messages \o toolResults
              /\ \E i \in DOMAIN toolResults :
                    StartsWith(toolResults[i].content, "Error:")
              /\ iterationCount' = iterationCount
       /\ (pc = "loop" /\ SomeCallFailed) =>
              \/ /\ iterationCount < 5
                 /\ iterationCount' = iterationCount + 1
                 /\ pc' = "create"
                 /\ Last(calls').messages = messages
              \/ /\ iterationCount = 5
                 /\ pc' = "exhausted"]_vars

C10_Witness ==
    /\ pc = "create" /\ iterationCount = 2
    /\ \E i \in ToolMessages : StartsWith(messages[i].content, "Error:")

\* what mcpInference has done that its caller or the outside can see: the
\* messages appended, the tools executed, the inference calls issued
LoopEffects == <<messages, execLog, callToolLog, calls, toolResults>>

\* C11: an inference call of the loop that rejects, or resolves without
\* choices, is fatal: the invocation ends with that error raised, and from
\* the failure on no message is appended, no tool is executed, no further
\* inference call is issued (no retry) and no content is returned.
C11_InferenceFailureIsFatal ==
    [][/\ (pc = "create" /\ thrown' # NULL) =>
              /\ pc' = "threw"
              /\ LoopEffects' = LoopEffects
              /\ result' = NULL
       /\ thrown # NULL =>
              /\ pc' = "threw"
              /\ thrown' = thrown
              /\ LoopEffects' = LoopEffects
              /\ result' = NULL]_vars

C11_Witness ==
    /\ pc = "threw" /\ thrown = NO_CHOICES_ERROR
    /\ Len(calls) = 3 /\ Len(execLog) = 2
    /\ Len(messages) = Len(request.messages) + 4

\* simpleInference has seen its inference call fail: it has logged an error
SimpleInferenceFailed == "simpleInference" \in Range(inferenceLog) /\ errors # <<>>

\* C12: in simpleInference every transport or protocol failure, a response
\* body without choices included, reaches the caller as a raised error: the
\* run fails with it and no result, null or empty, is handed on as a response.
C12_SimpleFailureIsFatal ==
    SimpleInferenceFailed =>
        /\ runPc = "failed"
        /\ raised = <<"simpleInference">>
        /\ outputs = <<>>

\* tool use is enabled and the gateway step has ended without a handle:
\* client.connect or client.listTools failed
GatewayFailed ==
    /\ enableMcp /\ connectLog # <<>>
    /\ runPc \notin {"connect", "listTools"}
    /\ mcpClient = NullClient

\* C13: a gateway connection failure never aborts the run: with tool use
\* enabled and the gateway failing, run() logs the fallback warning, calls
\* simpleInference on the same request and never mcpInference, and completes
\* with the response output set; it fails only if that inference, or writing
\* the response file, fails.
C13_GatewayFailureFallsBack ==
    GatewayFailed =>
        /\ FALLBACK_WARNING \in Range(warnings)
        /\ inferenceLog = <<"simpleInference">>
        /\ Len(calls) = 1 /\ calls[1].messages = request.messages
        /\ "tools" \notin DOMAIN calls[1]
        /\ runPc = "failed" => raised \in {<<"simpleInference">>, <<"writeFileSync">>}
        /\ runPc = "done" => Len(outputs) > 0 /\ outputs[1].name = "response"

\* C14: connectToGitHubMCP never raises to run(): when client.connect or
\* client.listTools fails it logs a warning and returns null.
C14_ConnectNeverRaises ==
    /\ "connectToGitHubMCP" \notin Range(raised)
    /\ GatewayFailed =>
           \E i \in DOMAIN warnings :
               StartsWith(warnings[i], "Failed to connect to GitHub MCP server")

\* the run ended otherwise than on a configuration error
RanPastInputs == RunDone /\ "loadContentFromFileOrInput" \notin Range(raised)

\* C18: in every run whose inputs load, the gateway connection is attempted at
\* most once and only when tool use is enabled, and exactly one inference path
\* is invoked, once: mcpInference when tool use is enabled and the connection
\* returned a handle, simpleInference otherwise.
C18_OneConnectionOneInferencePath ==
    /\ Len(connectLog) <= 1
    /\ connectLog # <<>> => enableMcp
    /\ RanPastInputs =>
           inferenceLog = IF enableMcp /\ mcpClient # NullClient
                          THEN <<"mcpInference">>
                          ELSE <<"simpleInference">>

\* C19: whenever a run succeeds, the file at the path set as the
\* 'response-file' output holds the text set as the 'response' output,
\* whatever the response, the empty one included.
C19_ResponseFileHoldsResponse ==
    runPc = "done" =>
        \E i, j \in DOMAIN outputs :
            /\ outputs[i].name = "response"
            /\ outputs[j].name = "response-file"
            /\ outputs[j].value = ResponseFilePath
            /\ responseFile = outputs[i].value

\* the text s ends with the text p
EndsWith(s, p) ==
    Len(s) >= Len(p) /\ SubSeq(s, Len(s) - Len(p) + 1, Len(s)) = p

\* what the inference path of the run returned
InferenceResult == IF inferenceLog = <<"mcpInference">> THEN result ELSE modelResponse

\* C20: run() sets no output before its inference has returned and sets each
\* at most once; on a successful run 'response' is set exactly once, to the
\* inference result or to the empty string when the result is null, and then
\* 'response-file' exactly once, to a path ending in modelResponse.txt.
C20_ResponseThenResponseFile ==
    /\ runPc \notin {"done", "failed"} => outputs = <<>>
    /\ \A i, j \in DOMAIN outputs : outputs[i].name = outputs[j].name => i = j
    /\ runPc = "done" =>
          /\ Len(outputs) = 2
          /\ outputs[1].name = "response"
          /\ outputs[1].value = (IF InferenceResult = NULL THEN "" ELSE InferenceResult)
          /\ outputs[2].name = "response-file"
          /\ EndsWith(outputs[2].value, "modelResponse.txt")

C20_Witness ==
    /\ runPc = "done" /\ inferenceLog = <<"mcpInference">>
    /\ pc = "exhausted" /\ result = NULL
    /\ outputs[1] = [name |-> "response", value |-> ""]

\* the tool messages answering the calls of l, one for one and in order
AnswersInOrder(ms, l) ==
    /\ Len(ms) = Len(l)
    /\ \A i \in DOMAIN ms :
          ms[i].role = "tool" /\ ms[i].tool_call_id = l[i].id

\* the inference call issued after a response with tool calls extends the
\* previous call's list by one assistant message carrying the tool_calls and
\* the tool messages of its calls, in call order
NextCallExtendsList ==
    [][(Len(calls') = Len(calls) + 1 /\ calls # <<>> /\ ~ToolFree(response)) =>
          LET prev == Last(calls).messages
              next == Last(calls').messages
              n    == Len(response.tool_calls)
          IN  /\ Len(next) = Len(prev) + 1 + n
              /\ SubSeq(next, 1, Len(prev)) = prev
              /\ next[Len(prev) + 1].role = "assistant"
              /\ next[Len(prev) + 1].tool_calls = response.tool_calls
              /\ AnswersInOrder(SubSeq(next, Len(prev) + 2, Len(next)),
                                response.tool_calls)]_vars

\* the roles of a message list
Roles(ms) == [i \in DOMAIN ms |-> ms[i].role]

\* the first response asked for exactly one tool
FirstTurnOneTool ==
    /\ Len(messages) >= 4
    /\ "tool_calls" \in DOMAIN messages[3] /\ Len(messages[3].tool_calls) = 1

\* the second call has been answered without tool calls and without failing
SecondAnswerToolFree ==
    /\ Len(request.messages) = 2 /\ FirstTurnOneTool
    /\ Len(calls) = 2 /\ pc \notin {"create", "threw"} /\ ToolFree(response)

\* C15 as claimed, read in its favour (no structured-output constraint): the
\* list of the next call is extended as stated, for the two-message list and
\* one tool call the second call's list is system, user, assistant, tool, and
\* when its answer is tool-free the loop returns that answer's content.
C15_SecondCallReturnsContent ==
    (SecondAnswerToolFree /\ ~FormatRequested) =>
        /\ Roles(calls[2].messages) = <<"system", "user", "assistant", "tool">>
        /\ pc = "returned"
        /\ result = response.content

\* C15 amended: as claimed, except that the second call's tool-free answer is
\* returned only when no structured-output constraint was requested, and an
\* empty content is returned as null; with a constraint the loop goes on to
\* its final round instead.
C15_NextCallExtendsList ==
    NextCallExtendsList
    /\ [](SecondAnswerToolFree =>
              /\ Roles(calls[2].messages) = <<"system", "user", "assistant", "tool">>
              /\ ~FormatRequested =>
                     pc = "returned" /\ result = Returned(response.content)
              /\ FormatRequested =>
                     /\ pc = "loop" /\ finalMessage
                     /\ Last(messages) = FormatPromptMessage)

C15_Witness ==
    /\ SecondAnswerToolFree /\ ~FormatRequested
    /\ pc = "returned" /\ result = "Hello"
    /\ messages[4].content = TOOL_OUTPUT

\* the call under way is of fn and has come to an end
Called(fn) == helperCall.fn = fn /\ helperOutcome # PENDING

\* an optional text is unset: undefined, or empty as an input left out is
Unset(text) == text = NULL \/ text = ""

\* C16: for a prompt definition with a non-empty message list buildMessages
\* returns that list unmodified (roles, contents, order, count), whatever
\* systemPrompt and prompt are; otherwise it returns exactly two messages,
\* system then user: the system prompt, or "You are a helpful assistant" if
\* unset, and the prompt, or the empty string if unset.
C16_BuildMessages ==
    Called("buildMessages") =>
        LET cfg == helperCall.promptConfig
            ms  == helperOutcome.value
        IN  /\ helperOutcome.kind = "value"
            /\ IF "messages" \in DOMAIN cfg /\ cfg.messages # <<>>
               THEN ms = cfg.messages
               ELSE /\ Len(ms) = 2
                    /\ ms[1].role = "system"
                    /\ ms[1].content =
                          (IF Unset(helperCall.systemPrompt)
                           THEN "You are a helpful assistant"
                           ELSE helperCall.systemPrompt)
                    /\ ms[2].role = "user"
                    /\ ms[2].content =
                          (IF Unset(helperCall.prompt) THEN ""
                           ELSE helperCall.prompt)

C16_Witness ==
    /\ Called("buildMessages")
    /\ helperCall.promptConfig = [messages |-> <<>>]
    /\ helperCall.systemPrompt = "" /\ helperCall.prompt = "Hello!"
    /\ helperOutcome.value =
          <<[role |-> "system", content |-> "You are a helpful assistant"],
            [role |-> "user", content |-> "Hello!"]>>

\* C17: buildResponseFormat returns a constraint only for a prompt definition
\* that declares responseFormat 'json_schema' and supplies a schema body, and
\* returns undefined in every other case; for a schema body that does not
\* parse it raises an 'Invalid JSON schema' error, it does not return
\* undefined.
C17_BuildResponseFormat ==
    Called("buildResponseFormat") =>
        LET cfg == helperCall.promptConfig
            declared == "responseFormat" \in DOMAIN cfg
                           /\ cfg.responseFormat = "json_schema"
            supplied == "jsonSchema" \in DOMAIN cfg /\ cfg.jsonSchema # ""
        IN  /\ helperOutcome.kind = "value" =>
                   /\ declared /\ supplied
                   /\ helperOutcome.value.type = "json_schema"
                   /\ helperOutcome.value.json_schema = [type |-> "object"]
            /\ ~(declared /\ supplied) => helperOutcome.kind = "undefined"
            /\ (declared /\ supplied /\ cfg.jsonSchema = SCHEMA_JSON) =>
                   helperOutcome.kind = "value"
            /\ (declared /\ supplied /\ cfg.jsonSchema = SCHEMA_BAD) =>
                   /\ helperOutcome.kind = "threw"
                   /\ StartsWith(helperOutcome.message, "Invalid JSON schema")

C17_Witness ==
    /\ Called("buildResponseFormat")
    /\ helperCall.promptConfig.messages # <<>>
    /\ helperOutcome.kind = "threw"

\* C23: loadContentFromFileOrInput resolves by a fixed precedence: a file-path
\* input that is set wins (the file's content, or 'File for <input> was not
\* found' with nothing read when the file does not exist, whatever the inline
\* content and the default); otherwise the inline input when set; otherwise
\* the default when one is given; otherwise 'Neither <file input> nor <content
\* input> was set'.  The file system is touched only when a file path is set.
C23_LoadPrecedence ==
    Called("loadContentFromFileOrInput") =>
        LET fi == helperCall.filePathInput
            ci == helperCall.contentInput
            fp == helperCall.getInput[fi]
            c  == helperCall.getInput[ci]
            d  == helperCall.defaultValue
            o  == helperOutcome.outcome
            fs == helperOutcome.fsCalls
        IN  IF ~Unset(fp)
            THEN IF fp = "missing.txt"
                 THEN /\ o.kind = "threw"
                      /\ o.message = "File for " \o fi \o " was not found: missing.txt"
                      /\ \A i \in DOMAIN fs : fs[i].op # "readFileSync"
                 ELSE /\ o.kind = "value"
                      /\ o.value = (IF fp = "prompt.txt" THEN "Hello!" ELSE "")
                      /\ \E i \in DOMAIN fs :
                            fs[i] = [op |-> "readFileSync", path |-> fp]
            ELSE /\ fs = <<>>
                 /\ IF ~Unset(c) THEN o.kind = "value" /\ o.value = c
                    ELSE IF d # NULL THEN o.kind = "value" /\ o.value = d
                    ELSE /\ o.kind = "threw"
                         /\ o.message = "Neither " \o fi \o " nor " \o ci
                                            \o " was set"

C23_Witness ==
    /\ Called("loadContentFromFileOrInput")
    /\ helperCall.getInput["prompt-file"] = "missing.txt"
    /\ helperCall.getInput["prompt"] = "Hi"
    /\ helperOutcome.kind = "threw"
    /\ helperOutcome.fsCalls = <<[op |-> "existsSync", path |-> "missing.txt"]>>

\* the message of the configuration error of the inputs, NULL when there is none
ExpectedConfigError ==
    IF inputs["prompt-file"] = "missing.txt"
    THEN "File for prompt-file was not found: missing.txt"
    ELSE IF inputs["prompt-file"] = "" /\ inputs["prompt"] = ""
    THEN "Neither prompt-file nor prompt was set"
    ELSE IF inputs["system-prompt-file"] = "missing.txt"
    THEN "File for system-prompt-file was not found: missing.txt"
    ELSE NULL

\* C21: a configuration error (no prompt and no prompt file, or a prompt file
\* or system prompt file that does not exist) aborts the run before any network
\* call: the gateway is never contacted, no inference call is issued, and the
\* run fails with the error's message verbatim.
C21_ConfigErrorAborts ==
    (ExpectedConfigError # NULL /\ runPc # "start") =>
        /\ runPc = "failed"
        /\ failed = ExpectedConfigError
        /\ connectLog = <<>>
        /\ inferenceLog = <<>>
        /\ calls = <<>>

C21_Witness ==
    /\ inputs["system-prompt-file"] = "missing.txt"
    /\ inputs["prompt"] = "Hi"
    /\ runPc = "failed"
    /\ failed = "File for system-prompt-file was not found: missing.txt"
    /\ raised = <<"loadContentFromFileOrInput">>

\* the message of the error a function of the run raised
RaisedMessage(fn) ==
    CASE fn = "loadContentFromFileOrInput" -> {ExpectedConfigError}
      [] fn = "connectToGitHubMCP" -> {"Request timed out"}
      [] fn = "simpleInference" -> {"API Error"}
      [] fn = "mcpInference" ->
            {"API Error", "Unexpected response format from API: {}"}
      [] OTHER -> {}

\* the steps that come before the outputs
BeforeOutputs ==
    {"loadContentFromFileOrInput", "connectToGitHubMCP", "simpleInference",
     "mcpInference"}

\* C22: a fatal error raised before the outputs are produced (a configuration
\* error, an error of the gateway step, an error of either inference path)
\* makes the run report failure with the error's message; neither 'response'
\* nor 'response-file' is set and no response file is written.
C22_FatalErrorLeavesNoOutput ==
    (raised # <<>> /\ raised[1] \in BeforeOutputs) =>
        /\ runPc = "failed"
        /\ Len(raised) = 1
        /\ failed \in RaisedMessage(raised[1])
        /\ raised[1] = "mcpInference" => failed = thrown
        /\ outputs = <<>>
        /\ responseFile = NULL

C22_Witness ==
    /\ runPc = "failed"
    /\ raised = <<"mcpInference">>
    /\ failed = "Unexpected response format from API: {}"
    /\ Len(calls) > 1
    /\ outputs = <<>>

\* one text is part of another
Contains(text, part) ==
    \E i \in 1..(Len(text) - Len(part) + 1) :
        SubSeq(text, i, i + Len(part) - 1) = part

\* what the server says about the error in a response: the message of its
\* error object, or the text of its body
ServerDetail(resp) ==
    IF resp.body.kind = "object"
    THEN IF "message" \in DOMAIN resp.body.error
         THEN resp.body.error.message ELSE resp.body.json
    ELSE IF resp.body.kind = "string" THEN resp.body.text ELSE ""

\* C24: handleUnexpectedResponse never returns normally, and for every
\* unexpected response (body missing, body with a server error object, any
\* other body) the message of the error it raises includes the response status
\* together with any server-supplied error detail.
C24_MessageHasStatusAndDetail ==
    Called("handleUnexpectedResponse") =>
        /\ helperOutcome.kind = "threw"
        /\ Contains(helperOutcome.message,
                    "(status: " \o helperCall.response.status \o ")")
        /\ Contains(helperOutcome.message, ServerDetail(helperCall.response))

\* the answer to the i-th inference call is in the list: the assistant message
\* pushed right after the messages the call carried
Answered(i) == Len(messages) > Len(calls[i].messages)
AnswerTo(i) == messages[Len(calls[i].messages) + 1]

\* an inference call before the i-th was answered without tool calls
AfterToolFreeAnswer(i) ==
    \E j \in 1..(i - 1) : Answered(j) /\ ToolFree(AnswerTo(j))

\* C25: with a structured-output constraint, every inference call up to and
\* including the one that yields the first tool-free response carries the tool
\* catalog and no response_format, and every call after it carries
\* response_format and no tools, until the loop ends.
C25_ToolsUntilToolFreeThenFormat ==
    FormatRequested =>
        \A i \in DOMAIN calls :
            IF AfterToolFreeAnswer(i)
            THEN /\ "response_format" \in DOMAIN calls[i]
                 /\ calls[i].response_format = RESPONSE_FORMAT
                 /\ "tools" \notin DOMAIN calls[i]
            ELSE /\ "tools" \in DOMAIN calls[i]
                 /\ calls[i].tools = GatewayTools
                 /\ "response_format" \notin DOMAIN calls[i]

C25_Witness ==
    /\ FormatRequested
    /\ Len(calls) = 4
    /\ ~ToolFree(AnswerTo(1)) /\ ToolFree(AnswerTo(2)) /\ ~ToolFree(AnswerTo(3))
    /\ "tools" \in DOMAIN calls[2]
    /\ "response_format" \in DOMAIN calls[4]

\* the tool executions begun and not yet come back
PendingExecutions == Len(execLog) - ResultsReturned

\* C26: the tool calls of one turn are executed strictly one at a time, in
\* list order: call i+1 is started only after call i has come back, two
\* executions never overlap, and no inference call is issued while an
\* execution is pending.
C26_ToolCallsOneAtATime ==
    /\ [](PendingExecutions \in {0, 1})
    /\ [][/\ execLog' # execLog =>
                /\ PendingExecutions = 0
                /\ execLog' = Append(execLog, toolCalls[Len(toolResults) + 1])
          /\ calls' # calls => PendingExecutions = 0]_vars

C26_Witness ==
    /\ pc = "callTool"
    /\ Len(toolCalls) = 2 /\ Len(toolResults) = 1
    /\ PendingExecutions = 1
    /\ Last(execLog) = toolCalls[2]

\* the tool calls of the assistant messages of a list, in order
RECURSIVE ToolCallsOf(_)
ToolCallsOf(ms) ==
    IF ms = <<>> THEN <<>>
    ELSE (IF ms[1].role = "assistant" /\ "tool_calls" \in DOMAIN ms[1]
          THEN ms[1].tool_calls ELSE <<>>) \o ToolCallsOf(Tail(ms))

\* C27: every tool call returned in a successful inference call is handed to
\* executeToolCall exactly once, the calls returned on the fifth iteration
\* included: outside a running executeToolCalls the calls executed are the
\* calls returned, each once and in order, and inside it they are the first of
\* them.
C27_EveryToolCallExecutedOnce ==
    /\ Len(execLog) <= Len(ToolCallsOf(messages))
    /\ execLog = SubSeq(ToolCallsOf(messages), 1, Len(execLog))
    /\ pc \notin {"tools", "callTool"} => execLog = ToolCallsOf(messages)

C27_Witness ==
    /\ pc = "exhausted"
    /\ Answered(5) /\ Len(AnswerTo(5).tool_calls) = 1
    /\ Last(execLog) = AnswerTo(5).tool_calls[1]
    /\ execLog = ToolCallsOf(messages)

\* C28: tool calls returned when finalMessage is already set are still
\* executed and their results appended as tool messages; the loop then goes on
\* to its next iteration, whose call again carries response_format and no
\* tools: the flag is not reset.
C28_ToolCallsInFinalRound ==
    [][/\ finalMessage => finalMessage'
       /\ (finalMessage /\ pc = "create" /\ thrown' = NULL
              /\ ~ToolFree(response')) =>
              /\ pc' = "tools"
              /\ toolCalls' = response'.tool_calls
              /\ Last(messages').tool_calls = response'.tool_calls
       /\ (finalMessage /\ pc = "tools" /\ pc' = "loop") =>
              /\ AnswersInOrder(toolResults, toolCalls)
              /\ messages' = messages \o toolResults
       /\ (finalMessage /\ pc = "loop" /\ Len(calls) < 5) =>
              /\ pc' = "create"
              /\ Len(calls') = Len(calls) + 1
              /\ "response_format" \in DOMAIN Last(calls')
              /\ "tools" \notin DOMAIN Last(calls')
              /\ Last(calls').messages = messages]_vars

C28_Witness ==
    /\ finalMessage /\ pc = "create"
    /\ Len(calls) >= 3
    /\ "response_format" \in DOMAIN calls[Len(calls) - 1]
    /\ ~ToolFree(AnswerTo(Len(calls) - 1))
    /\ Last(messages).role = "tool"
    /\ "response_format" \in DOMAIN Last(calls)

\* the inference calls that have come back with a response
SuccessfulCalls == Len(calls) - (IF pc \in {"create", "threw"} THEN 1 ELSE 0)

\* the assistant messages the loop has appended to the list it was given
AssistantAppended ==
    Cardinality(AssistantIdx(messages)) - Cardinality(AssistantIdx(request.messages))

\* C29: every successful inference call appends exactly one assistant message,
\* whose content is the returned content, or the empty string when that is
\* null, and which carries tool_calls when the response has them; the number of
\* assistant messages appended equals the number of successful inference calls.
C29_OneAssistantMessagePerCall ==
    /\ [](AssistantAppended = SuccessfulCalls)
    /\ [][IF pc = "create" /\ thrown' = NULL
          THEN LET m == messages'[Len(messages) + 1]
               IN  /\ SubSeq(messages', 1, Len(messages)) = messages
                   /\ m.role = "assistant"
                   /\ m.content = (IF response'.content = NULL THEN ""
                                   ELSE response'.content)
                   /\ IF "tool_calls" \in DOMAIN response'
                      THEN m.tool_calls = response'.tool_calls
                      ELSE "tool_calls" \notin DOMAIN m
                   /\ AssistantIdx(messages') = AssistantIdx(messages)
                                                    \cup {Len(messages) + 1}
          ELSE AssistantIdx(messages') = AssistantIdx(messages)]_vars

C29_Witness ==
    /\ pc = "create" /\ Len(calls) = 3
    /\ AssistantAppended = 2
    /\ AnswerTo(1).content = "" /\ "tool_calls" \in DOMAIN AnswerTo(1)
    /\ Len(AnswerTo(1).tool_calls) = 2
    /\ AnswerTo(2).content = "Hello"

\* C30: the loop leaves the tool catalog, the model name and max_tokens as
\* they are: every inference call that carries tools carries the same, full
\* catalog, the one listed at connection time, and every call carries the
\* request's model name and max_tokens.
C30_CatalogModelAndMaxTokensKept ==
    /\ [](\A i \in DOMAIN calls :
            /\ calls[i].model = request.modelName
            /\ calls[i].max_tokens = request.maxTokens
            /\ "tools" \in DOMAIN calls[i] =>
                   /\ calls[i].tools = mcpClient.tools
                   /\ calls[i].tools = calls[1].tools
                   /\ Len(calls[i].tools) = 2)
    /\ [][/\ request' = request
          /\ mcpClient' = mcpClient]_vars

C30_Witness ==
    /\ Len(calls) = 5
    /\ "tools" \in DOMAIN calls[1] /\ "tools" \in DOMAIN calls[2]
    /\ "response_format" \in DOMAIN calls[3]
    /\ "response_format" \in DOMAIN calls[5]
    /\ calls[5].model = "gpt-4o" /\ calls[5].max_tokens = 200

\* every inference call answered so far was answered with tool calls
AllAnswersCallTools ==
    \A i \in DOMAIN calls : Answered(i) => ~ToolFree(AnswerTo(i))

\* C31: with a structured-output constraint requested, if the model returns
\* tool calls in every response, the loop reaches the iteration cap without
\* ever issuing a call that carries response_format, and the content it returns
\* comes from a call made without the constraint.
C31_ToolCallsEveryTimeNeverFormats ==
    (FormatRequested /\ AllAnswersCallTools) =>
        /\ FormatCalls = {}
        /\ ~finalMessage
        /\ pc # "returned"
        /\ pc = "exhausted" =>
              /\ Len(calls) = 5
              /\ warnings # <<>> /\ Last(warnings) = BUDGET_WARNING
              /\ "tools" \in DOMAIN calls[5]
              /\ "response_format" \notin DOMAIN calls[5]
              /\ result = Returned(AnswerTo(5).content)

C31_Witness ==
    /\ FormatRequested /\ AllAnswersCallTools
    /\ pc = "exhausted"
    /\ result = "Hello"
    /\ FormatCalls = {}

\* the tool messages of a list
ToolMessagesOf(ms) == {i \in DOMAIN ms : ms[i].role = "tool"}

\* C32: when a response carries no tool calls (tool_calls absent or an empty
\* list) the loop executes no tool and appends no tool message in that
\* iteration: it goes on to the next iteration or returns, and executeToolCalls
\* only ever runs for a response with tool calls.
C32_NoToolCallsNoExecution ==
    /\ [](pc \in {"tools", "callTool"} => ~ToolFree(response))
    /\ [][(pc = "create" /\ thrown' = NULL /\ ToolFree(response')) =>
              /\ pc' \in {"loop", "returned"}
              /\ execLog' = execLog
              /\ callToolLog' = callToolLog
              /\ ToolMessagesOf(messages') = ToolMessagesOf(messages)]_vars
    /\ [][(pc = "loop" /\ ToolFree(response)) =>
              /\ execLog' = execLog
              /\ ToolMessagesOf(messages') = ToolMessagesOf(messages)]_vars

C32_Witness ==
    /\ pc = "returned" /\ Len(calls) = 2
    /\ "tool_calls" \in DOMAIN AnswerTo(1) /\ AnswerTo(1).tool_calls = <<>>
    /\ "tool_calls" \notin DOMAIN AnswerTo(2)
    /\ execLog = <<>> /\ ToolMessagesOf(messages) = {}

\* simpleInference was called / has returned the content of a response
SimpleInferenceCalled == inferenceLog = <<"simpleInference">>
SimpleInferenceAnswered ==
    SimpleInferenceCalled /\ runPc \in {"respond", "done"} /\ errors = <<>>

\* the one request of simpleInference: the request's messages, model and
\* max_tokens, no tools, response_format exactly when the request has one
OneSimpleRequest ==
    /\ Len(calls) = 1
    /\ calls[1].messages = request.messages
    /\ calls[1].model = request.modelName
    /\ calls[1].max_tokens = request.maxTokens
    /\ "tools" \notin DOMAIN calls[1]
    /\ IF FormatRequested
       THEN /\ "response_format" \in DOMAIN calls[1]
            /\ calls[1].response_format = request.responseFormat
       ELSE "response_format" \notin DOMAIN calls[1]

\* C33 as claimed: simpleInference issues exactly one completion request per
\* invocation, with the request's messages unchanged, never with tool
\* declarations, and with response_format attached if and only if the request
\* has one; it returns the response content, or null when the content is null.
C33_OneRequestContentReturned ==
    /\ SimpleInferenceCalled => OneSimpleRequest
    /\ SimpleInferenceAnswered => modelResponse = response.content

\* C33 amended: as above, but an empty content is returned as null too.
C33_OneRequestContentOrNull ==
    /\ SimpleInferenceCalled => OneSimpleRequest
    /\ SimpleInferenceAnswered => modelResponse = Returned(response.content)

C33_Witness ==
    /\ SimpleInferenceAnswered
    /\ FormatRequested
    /\ "response_format" \in DOMAIN calls[1]
    /\ response.content = "" /\ modelResponse = NULL

\* the variables supplied: the names of the input's own entries
Supplied(variables) == {v.name : v \in variables}

\* a text with every placeholder of a supplied name replaced by the
\* variable's value and everything else as written
RECURSIVE SuppliedReplaced(_, _, _)
SuppliedReplaced(text, i, variables) ==
    IF i > Len(text) THEN ""
    ELSE IF PlaceholderAt(text, i)
    THEN LET n == NameRun(text, i + 2)
             name == SubSeq(text, i + 2, i + 1 + n)
         IN  (IF name \in Supplied(variables)
              THEN (CHOOSE v \in variables : v.name = name).value
              ELSE SubSeq(text, i, i + 3 + n))
             \o SuppliedReplaced(text, i + 4 + n, variables)
    ELSE SubSeq(text, i, i) \o SuppliedReplaced(text, i + 1, variables)

\* a text without placeholders
NoPlaceholders(text) == \A i \in 1..Len(text) : ~PlaceholderAt(text, i)

\* C34: replaceTemplateVariables replaces every {{name}} placeholder whose
\* name is a supplied variable by that variable's value and leaves every
\* placeholder whose name is not supplied exactly as written; in particular a
\* text with no placeholders, or any text with an empty variable set, is
\* returned unchanged.
C34_ReplacesSuppliedKeepsOthers ==
    Called("replaceTemplateVariables") =>
        /\ helperOutcome.value =
              SuppliedReplaced(helperCall.text, 1, helperCall.variables)
        /\ NoPlaceholders(helperCall.text) => helperOutcome.value = helperCall.text
        /\ helperCall.variables = {} => helperOutcome.value = helperCall.text

\* the reformat requests in a list
FormatPrompts(ms) == {i \in DOMAIN ms : ms[i] = FormatPromptMessage}

\* C35: in every reachable state of the loop finalMessage is true only if a
\* structured-output constraint was requested; once set it is never reset; and
\* the user message asking for the required format is appended at most once
\* per invocation, exactly at the transition that sets the flag.
C35_FinalMessageMonotone ==
    /\ [](finalMessage => FormatRequested)
    /\ [](Cardinality(FormatPrompts(messages)) = IF finalMessage THEN 1 ELSE 0)
    /\ [][/\ finalMessage => finalMessage'
          /\ IF ~finalMessage /\ finalMessage'
             THEN /\ Len(messages') = Len(messages) + 2
                  /\ SubSeq(messages', 1, Len(messages)) = messages
                  /\ messages'[Len(messages) + 1].role = "assistant"
                  /\ Last(messages') = FormatPromptMessage
             ELSE FormatPrompts(messages') = FormatPrompts(messages)]_vars

C35_Witness ==
    /\ finalMessage /\ pc = "returned"
    /\ Len(calls) = 4
    /\ Cardinality(FormatPrompts(messages)) = 1
    /\ ToolFree(AnswerTo(2)) /\ ~ToolFree(AnswerTo(3)) /\ ToolFree(AnswerTo(4))

\* what C36 says of an invocation that has ended, with the result compared to
\* the value v
InLoopResultIsOfFormatCall(v) ==
    /\ (FormatRequested /\ pc = "returned") =>
          /\ "response_format" \in DOMAIN Last(calls)
          /\ Last(calls).response_format = request.responseFormat
          /\ "tools" \notin DOMAIN Last(calls)
          /\ BUDGET_WARNING \notin Range(warnings)
          /\ Last(messages) = AnswerTo(Len(calls))
          /\ result = v
    /\ (FormatRequested /\ pc \in {"returned", "exhausted"}
          /\ "tools" \in DOMAIN Last(calls)) =>
          /\ pc = "exhausted"
          /\ Last(warnings) = BUDGET_WARNING

\* C36 as claimed: when a structured-output constraint is requested, every
\* result that mcpInference returns from inside the loop (without the budget
\* warning) is the content of an inference call that carried response_format
\* and no tools; a result produced by a tool-enabled call is returned only
\* through budget exhaustion.
C36_InLoopResultIsFormatted == InLoopResultIsOfFormatCall(response.content)

\* C36 amended: as above, but the result is null when that call's content is
\* the empty string.
C36_InLoopResultIsFormattedOrNull ==
    InLoopResultIsOfFormatCall(Returned(response.content))

C36_Witness ==
    /\ FormatRequested /\ pc = "returned"
    /\ Len(calls) = 3
    /\ ~ToolFree(AnswerTo(1))
    /\ "tools" \in DOMAIN calls[2]
    /\ result = "Hello"

\* the list p is the beginning of the list l
IsPrefix(p, l) == Len(p) <= Len(l) /\ SubSeq(l, 1, Len(p)) = p

\* C37: the loop's message list is append-only: the initial messages stay an
\* unmodified prefix of it in every state, the list sent with inference call
\* k+1 is a proper extension of the list sent with call k, and the caller's
\* request.messages is left unchanged by mcpInference, which works on a copy.
C37_MessagesAppendOnly ==
    /\ [](IsPrefix(request.messages, messages))
    /\ [](\A k \in DOMAIN calls :
            /\ k = 1 => calls[k].messages = request.messages
            /\ k > 1 => /\ IsPrefix(calls[k - 1].messages, calls[k].messages)
                        /\ Len(calls[k].messages) > Len(calls[k - 1].messages)
            /\ IsPrefix(calls[k].messages, messages))
    /\ [][/\ IsPrefix(messages, messages')
          /\ request' = request]_vars

C37_Witness ==
    /\ Len(calls) = 3
    /\ Len(calls[2].messages) = Len(calls[1].messages) + 3
    /\ Len(calls[3].messages) = Len(calls[2].messages) + 2
    /\ Len(request.messages) = 1
    /\ Len(messages) > Len(calls[3].messages)

\* the first tool-free response is the fifth: the four before it asked for tools
FirstToolFreeOnFifth ==
    /\ FormatRequested
    /\ Len(calls) >= 5 /\ Answered(5)
    /\ ToolFree(AnswerTo(5))
    /\ \A i \in 1..4 : ~ToolFree(AnswerTo(i))

\* what C38 says of such an invocation, with the result compared to the value v
ReformatRequestUnsent(v) ==
    FirstToolFreeOnFifth =>
        /\ finalMessage
        /\ Len(calls) = 5
        /\ messages = calls[5].messages \o <<AnswerTo(5), FormatPromptMessage>>
        /\ FormatCalls = {}
        /\ \A i \in DOMAIN calls : FormatPromptMessage \notin Range(calls[i].messages)
        /\ pc \in {"loop", "exhausted"}
        /\ pc = "exhausted" =>
              /\ warnings # <<>> /\ Last(warnings) = BUDGET_WARNING
              /\ result = v

\* C38 as claimed: if a structured-output constraint is requested and the
\* first tool-free response arrives on the fifth iteration, the loop appends
\* the reformat user message and sets finalMessage but issues no further call:
\* it ends through budget exhaustion with the warning, returns the content of
\* that fifth (unconstrained) response, and leaves the appended user message
\* unsent.
C38_FifthToolFreeExhausts == ReformatRequestUnsent(response.content)

\* C38 amended: as above, but what is returned is null when the content of the
\* fifth response is the empty string.
C38_FifthToolFreeExhaustsOrNull == ReformatRequestUnsent(Returned(response.content))

C38_Witness ==
    /\ FirstToolFreeOnFifth
    /\ pc = "exhausted"
    /\ Last(messages) = FormatPromptMessage
    /\ result = "Hello"

\* the budget warnings logged
BudgetWarnings == {i \in DOMAIN warnings : warnings[i] = BUDGET_WARNING}

\* what C39 says, with the result of a return from inside the loop compared
\* to the value v
WarningOnlyOnExhaustion(v) ==
    /\ Cardinality(BudgetWarnings) <= 1
    /\ BudgetWarnings # {} =>
          /\ pc = "exhausted"
          /\ Len(calls) = 5 /\ SuccessfulCalls = 5
          /\ AssistantAppended = 5
    /\ pc \in {"returned", "threw"} => BudgetWarnings = {}
    /\ pc = "returned" =>
          /\ Last(messages).role = "assistant"
          /\ Last(messages) = AnswerTo(Len(calls))
          /\ result = v

\* C39 as claimed: the budget-exceeded warning is logged at most once per
\* invocation and only after exactly five inference calls have succeeded; it
\* is never logged in an invocation that returns from inside the loop or that
\* fails, and an invocation that returns from inside the loop has as the last
\* element of its message list the assistant message whose content it returns.
C39_WarningOnlyOnExhaustion == WarningOnlyOnExhaustion(Last(messages).content)

\* C39 amended: as above, but what is returned is null when the content of
\* that last assistant message is the empty string.
C39_WarningOnlyOnExhaustionOrNull ==
    WarningOnlyOnExhaustion(Returned(Last(messages).content))

C39_Witness ==
    /\ pc = "returned"
    /\ Len(calls) = 5
    /\ BudgetWarnings = {}
    /\ Last(messages).content = "" /\ result = NULL

====
